---- MODULE Spec2Model ----
(***************************************************************************)
(* Model of the AI-vs-AI debate calculator: the DebateOrchestrator state   *)
(* machine (debate / debate_sync), the tenacity retry wrapper around the   *)
(* model calls, the PaceController suspension points and the tag           *)
(* extractors.  Texts are sequences of one-character strings so that the   *)
(* regular expressions are computed, not assumed.                          *)
(***************************************************************************)
EXTENDS Integers, Sequences, FiniteSets, TLC

\* ------------------------------------------------------------------ bounds
\* largest max_rounds argument explored
MaxRounds == 3
\* largest max_rounds argument explored when the sinks can fail, be it by
\* raising or by a failing write of the log file
MaxRoundsFaults == 1
\* largest max_rounds argument of the debate that runs beside a second one
MaxRoundsConcurrent == 1
\* model latencies explored: 0, LatencyStep, ..., MaxLatencySteps * LatencyStep
MaxLatencySteps == 60
\* jitter draws explored: the fractions k / JitterSteps of the jitter range
JitterSteps == 2
\* largest time (ms) the clock runs on between the end of the model call, or
\* of the requested sleep, and the reading of total_time
MaxClockLag == 2
\* most turns of the transcript that is paced under two profiles
MaxPacedTurns == 2
\* most pieces a text handed to the extractors is put together from
MaxPieces == 3
\* most calls of either extractor on one text
MaxExtractorCalls == 2
\* largest max_rounds argument explored when the message lists are followed
MaxRoundsPrompts == 2
\* largest max_rounds argument explored when a progress callback may be
\* attached
MaxRoundsWatched == 2
\* largest max_rounds argument explored when termination is checked
MaxRoundsFair == 1

\* ------------------------------------------------------- program constants
\* stop_after_attempt(3)
StopAfterAttempt == 3
\* wait_exponential(multiplier=2, min=1, max=10)
WaitMultiplier == 2
WaitMin == 1
WaitMax == 10

\* settings.jitter_percentage = 0.15, in per cent
JitterPercentage == 15
\* _apply_jitter: max(0.1, ...), in milliseconds
JitterFloor == 100

\* ------------------------------------------------------------ Optional[T]
None == <<>>
Some(x) == <<x>>

\* ------------------------------------------------------------------ texts
\* str.strip() removes leading and trailing whitespace
IsSpace(c) == c \in {" ", "\n", "\t"}

RECURSIVE LStrip(_)
LStrip(s) == IF s # <<>> /\ IsSpace(s[1]) THEN LStrip(Tail(s)) ELSE s

RECURSIVE RStrip(_)
RStrip(s) ==
  IF s # <<>> /\ IsSpace(s[Len(s)]) THEN RStrip(SubSeq(s, 1, Len(s) - 1)) ELSE s

Strip(s) == RStrip(LStrip(s))

\* re.IGNORECASE: a pattern letter stands for both of its cases, so a
\* pattern is a sequence of character sets
CI(lower, upper) == {lower, upper}
Lit(c) == {c}

\* the pattern pat matches text at position i
MatchAt(text, i, pat) ==
  /\ i >= 1
  /\ i + Len(pat) - 1 <= Len(text)
  /\ \A k \in 1..Len(pat) : text[i + k - 1] \in pat[k]

\* leftmost position >= i at which pat matches, 0 when there is none
RECURSIVE Search(_, _, _)
Search(text, i, pat) ==
  IF i + Len(pat) - 1 > Len(text) THEN 0
  ELSE IF MatchAt(text, i, pat) THEN i
  ELSE Search(text, i + 1, pat)

AgreeOpen ==
  <<Lit("<"), CI("a", "A"), CI("g", "G"), CI("r", "R"), CI("e", "E"),
    CI("e", "E"), Lit(">")>>
AgreeClose ==
  <<Lit("<"), Lit("/"), CI("a", "A"), CI("g", "G"), CI("r", "R"),
    CI("e", "E"), CI("e", "E"), Lit(">")>>
TrueLit == <<CI("t", "T"), CI("r", "R"), CI("u", "U"), CI("e", "E")>>
FalseLit ==
  <<CI("f", "F"), CI("a", "A"), CI("l", "L"), CI("s", "S"), CI("e", "E")>>
FinalOpen ==
  <<Lit("<"), CI("f", "F"), CI("i", "I"), CI("n", "N"), CI("a", "A"),
    CI("l", "L"), Lit(">")>>
FinalClose ==
  <<Lit("<"), Lit("/"), CI("f", "F"), CI("i", "I"), CI("n", "N"),
    CI("a", "A"), CI("l", "L"), Lit(">")>>

\* AGREE_TAG = re.compile(r"<AGREE>(true|false)</AGREE>", re.IGNORECASE)
\* with the group being the literal lit
AGREE_TAG(lit) == AgreeOpen \o lit \o AgreeClose

\* rightmost position <= i at which pat matches, 0 when there is none
RECURSIVE SearchLastFrom(_, _, _)
SearchLastFrom(text, i, pat) ==
  IF i < 1 THEN 0
  ELSE IF MatchAt(text, i, pat) THEN i
  ELSE SearchLastFrom(text, i - 1, pat)

\* variant: the rightmost agreement tag decides
ExtractAgreementLast(response) ==
  LET t == SearchLastFrom(response, Len(response), AGREE_TAG(TrueLit))
      f == SearchLastFrom(response, Len(response), AGREE_TAG(FalseLit))
  IN  IF t = 0 /\ f = 0 THEN None ELSE Some(t > f)

\* _extract_agreement: search() returns the leftmost match;
\* match.group(1).lower() == "true"
ExtractAgreement(response) ==
  LET t == Search(response, 1, AGREE_TAG(TrueLit))
      f == Search(response, 1, AGREE_TAG(FalseLit))
  IN  IF t = 0 /\ f = 0 THEN None
      ELSE IF f = 0 THEN Some(TRUE)
      ELSE IF t = 0 THEN Some(FALSE)
      ELSE Some(t < f)

\* variant: the group is greedy and runs up to the last closing tag
ExtractFinalAnswerGreedy(response) ==
  LET m == Search(response, 1, FinalOpen)
      e == IF m = 0 THEN 0 ELSE SearchLastFrom(response, Len(response), FinalClose)
  IN  IF e < m + Len(FinalOpen) THEN None
      ELSE Some(Strip(SubSeq(response, m + Len(FinalOpen), e - 1)))

\* FINAL_TAG = re.compile(r"<FINAL>(.*?)</FINAL>", re.IGNORECASE | re.DOTALL)
\* _extract_final_answer: the leftmost opening tag that has a closing tag
\* after it, the group running (non-greedy, newlines included) up to the
\* first closing tag; match.group(1).strip()
ExtractFinalAnswer(response) ==
  LET m == Search(response, 1, FinalOpen)
      e == IF m = 0 THEN 0 ELSE Search(response, m + Len(FinalOpen), FinalClose)
  IN  IF e = 0 THEN None
      ELSE Some(Strip(SubSeq(response, m + Len(FinalOpen), e - 1)))

\* variant: any string counts, the empty one included
TruthyNotNone(opt) == opt # None

\* Python truthiness of an Optional[str]: None and "" are both falsy
Truthy(opt) == opt # None /\ opt[1] # <<>>

\* ------------------------------------------------- what the providers say
\* "2+3=5": no tag at all
TextPlain == <<"2", "+", "3", "=", "5">>
\* "<AGREE>false</AGREE> no"
TextAgreeFalse ==
  <<"<", "A", "G", "R", "E", "E", ">", "f", "a", "l", "s", "e",
    "<", "/", "A", "G", "R", "E", "E", ">", " ", "n", "o">>
\* "ok <agree>TRUE</agree>\n": lower-case tag, upper-case literal, trailing newline
TextAgreeTrue ==
  <<"o", "k", " ", "<", "a", "g", "r", "e", "e", ">", "T", "R", "U", "E",
    "<", "/", "a", "g", "r", "e", "e", ">", "\n">>
\* "<FINAL> 5\n</Final>"
TextFinal ==
  <<"<", "F", "I", "N", "A", "L", ">", " ", "5", "\n",
    "<", "/", "F", "i", "n", "a", "l", ">">>
\* "<FINAL> </FINAL>": a tag pair around whitespace only
TextFinalEmpty ==
  <<"<", "F", "I", "N", "A", "L", ">", " ",
    "<", "/", "F", "I", "N", "A", "L", ">">>

RawTexts == {TextPlain, TextAgreeFalse, TextAgreeTrue, TextFinal, TextFinalEmpty}

\* failures a provider call can raise (transport, authentication, rate limit)
ProviderErrors == {"rate limit exceeded", "connection reset"}

\* what a model call returns: response...content.strip()
Responses == {Strip(raw) : raw \in RawTexts}


\* pace arguments: a known mode and an unknown one
PaceInputs == {"slow", "warp"}
ValidPaces == {"slow", "medium", "fast"}

\* debate (cooperative, calls wrapped by @retry) / debate_sync (blocking)
Modes == {"debate", "debate_sync"}

\* ------------------------------------------------------------- exceptions
ProviderError(d) == [cls |-> "ProviderError", desc |-> d]
\* tenacity (reraise left False): the exhausted call raises RetryError,
\* which holds the last attempt's outcome
RetryError(last) == [cls |-> "RetryError", last |-> last]
\* str(e): a RetryError prints the Future of its last attempt (the class of
\* the inner exception, not its description)
StrOfException(e) ==
  IF e.cls = "RetryError"
  THEN <<"RetryError[<Future state=finished raised ", e.last.cls, ">]">>
  ELSE <<e.desc>>

\* raise ValueError(f"Unknown pace mode: {pace}")
ValueError(p) == [cls |-> "ValueError", desc |-> <<"Unknown pace mode: ", p>>]
\* what a raising progress callback and a raising telemetry call raise
CallbackError == [cls |-> "CallbackError", desc |-> "progress callback failed"]
TelemetryError == [cls |-> "TelemetryError", desc |-> "telemetry sink failed"]
\* asyncio.CancelledError: a BaseException, not an Exception
CancelledError == [cls |-> "CancelledError", desc |-> ""]

\* ---------------------------------------------------------- result records
\* DebateStatus
NOT_STARTED == "not_started"
IN_PROGRESS == "in_progress"
COMPLETED == "completed"
ERROR == "error"
TIMEOUT == "timeout"
TerminalStatuses == {COMPLETED, ERROR, TIMEOUT}

\* DebateTurn(speaker, content, agreement_flag=None)
DebateTurn(speaker, content, flag) ==
  [speaker |-> speaker, content |-> content, agreement_flag |-> flag]

\* a dict without keys
EmptyDict == <<>>

\* DebateResult(status, final_answer=None, rounds=0, turns=[], total_time=0.0,
\* error_message=None, timing_summary={}); total_time is "0.0" until the
\* finally block stores the elapsed time
DebateResult(status) ==
  [status |-> status, final_answer |-> None, rounds |-> 0, turns |-> <<>>,
   total_time |-> "0.0", error_message |-> None, timing_summary |-> EmptyDict]

\* ------------------------------------------------------- TelemetryLogger
\* TelemetryLogger(): no debate is current, no turn metrics, nothing written
\* to the log file, no failed write reported
TelemetryLogger ==
  [current_debate |-> None, turn_metrics |-> <<>>, log_file |-> <<>>,
   write_failures |-> 0]

\* TurnMetrics, of the fields the protocol decides: speaker and agreement flag
\* (expression tells whose turn was handed to log_turn)
TurnMetrics(expression, t) ==
  [speaker |-> t.speaker, agreement_flag |-> t.agreement_flag,
   expression |-> expression]

\* DebateMetrics: expression from current_debate, the rest from the result
\* and from turn_metrics
DebateMetrics(lg, res) ==
  [expression |-> lg.current_debate[1].expression,
   status |-> res.status,
   final_answer |-> res.final_answer,
   rounds_completed |-> res.rounds,
   total_turns |-> Len(lg.turn_metrics),
   error_message |-> res.error_message,
   turns |-> lg.turn_metrics]

\* log_debate_start: a new current debate, turn_metrics cleared
LogDebateStart(lg, expression, p, n) ==
  [lg EXCEPT !.current_debate =
               Some([expression |-> expression, pace_mode |-> p, max_rounds |-> n]),
             !.turn_metrics = <<>>]

\* log_turn: dropped with a warning when no debate is current
LogTurn(lg, expression, t) ==
  IF lg.current_debate = None THEN lg
  ELSE [lg EXCEPT !.turn_metrics = Append(@, TurnMetrics(expression, t))]

\* variant: the logger is not reset after the write
LogDebateEndNoReset(lg, res, write_ok) ==
  IF lg.current_debate = None THEN lg
  ELSE [lg EXCEPT !.log_file = IF write_ok THEN Append(@, DebateMetrics(lg, res))
                               ELSE @,
                  !.write_failures = IF write_ok THEN @ ELSE @ + 1]

\* log_debate_end: nothing when no debate is current; else the metrics are
\* written (a failing write is caught inside _write_metrics_to_file, which
\* reports it to the logger and returns) and the logger is reset
LogDebateEnd(lg, res, write_ok) ==
  IF lg.current_debate = None THEN lg
  ELSE [lg EXCEPT !.log_file = IF write_ok THEN Append(@, DebateMetrics(lg, res))
                               ELSE @,
                  !.write_failures = IF write_ok THEN @ ELSE @ + 1,
                  !.current_debate = None,
                  !.turn_metrics = <<>>]

\* the expression argument of the debate modelled turn by turn
Expression == "2+3"

NoFinalMessage == <<"Terrence failed to provide final answer after agreement">>
TimeoutMessage(n) ==
  <<"Debate did not reach agreement within ", ToString(n), " rounds">>

\* ------------------------------------------------------------------ state
VARIABLES
  mode,          \* which entry point runs: debate or debate_sync
  pace,          \* the pace argument
  max_rounds,    \* the max_rounds argument
  pc,            \* position: start, call, backoff, pad, gap, done, raised
  turn,          \* the turn being executed, or the one a gap leads to
  round_num,     \* loop variable of the round loop
  result,        \* the DebateResult
  attempt,       \* attempt number of the model call in flight (0: none);
                 \* kept while its text is padded and by a RetryError
  backoff,       \* seconds of the retry wait being slept
  response,      \* text returned by the latest model call (execute_turn's local)
  caught,        \* the exception caught by "except Exception as e", if any
  calls,         \* model calls issued by execute_turn so far, per speaker
  gaps,          \* sleeps of inter_turn_gap begun so far
  progress_callback,  \* the progress_callback argument: "none" or "attached"
  telemetry,     \* self.telemetry: None, or the TelemetryLogger's state
  notified,      \* the progress callback has delivered a notification
  escaped,       \* the exception raised out of debate / debate_sync, if any
  other,         \* a second debate running on the same orchestrator
  timing,        \* an execute_turn call taken alone, with its clock readings
  turn_timings,  \* pace_controller._turn_timings: how many TurnTiming it holds
  sinks,         \* "reliable": the telemetry calls return; "faulty": they may raise
  events,        \* what the pace controller taken alone has emitted and invoked
  runs,          \* one transcript paced under the fast and the slow profile
  extraction,    \* a text and what the extractors returned for it, call by call
  prompts        \* conversation_history and the message lists built from it

vars == <<mode, pace, max_rounds, pc, turn, round_num, result, attempt,
          backoff, response, caught, calls, gaps, progress_callback,
          telemetry, notified, escaped, other, timing, turn_timings, sinks,
          events, runs, extraction, prompts>>

args == <<mode, pace, max_rounds, progress_callback, sinks>>

\* what the steps of the debate do not touch
aside == <<other, timing, events, runs, extraction>>

\* no second debate; no execute_turn taken alone
NoOther == [pc |-> "absent", turns |-> 0]
NoTiming == [phase |-> "absent"]
\* no pair of paced runs; no text handed to the extractors
NoRuns == [phase |-> "absent"]
NoExtraction == [phase |-> "absent"]
\* the message lists of the run are not followed
NoPrompts == [phase |-> "absent"]

Speaker(t) == IF t = "neil" THEN "Neil" ELSE "Terrence"

Init ==
  /\ mode \in Modes
  /\ pace \in PaceInputs
  /\ max_rounds \in -1..MaxRounds
  /\ pc = "start"
  /\ turn = "terrence"
  /\ round_num = 0
  /\ result = DebateResult(NOT_STARTED)
  /\ attempt = 0
  /\ backoff = 0
  /\ response = <<>>
  /\ caught = None
  /\ calls = [Terrence |-> 0, Neil |-> 0]
  /\ gaps = 0
  /\ progress_callback = "none"
  /\ telemetry = None
  /\ notified = FALSE
  /\ escaped = None
  /\ other = NoOther
  /\ timing = NoTiming
  /\ turn_timings = 0
  /\ sinks = "reliable"
  /\ events = <<>>
  /\ runs = NoRuns
  /\ extraction = NoExtraction
  /\ prompts = NoPrompts

\* ------------------------------------------------------------- sink faults
\* what the sinks do when a step invokes them: the progress callback raises
\* (cb), a telemetry call of the try block raises (tel), and which call of
\* the exit path fails (exit): log_error or log_debate_end raising, or the
\* write of the metrics failing inside _write_metrics_to_file.  The
\* telemetry logger is made to fail only in runs without a second debate;
\* with reliable sinks its calls return and only the write may fail.
Faults ==
  [cb : IF progress_callback = "attached" THEN BOOLEAN ELSE {FALSE},
   tel : IF telemetry # None /\ other = NoOther /\ sinks = "faulty"
         THEN BOOLEAN ELSE {FALSE},
   exit : IF telemetry # None /\ other = NoOther
          THEN IF sinks = "faulty"
               THEN {"none", "log_error", "log_debate_end", "write_metrics"}
               ELSE {"none", "write_metrics"}
          ELSE {"none"}]

\* "if self.telemetry: self.telemetry.log_...": lg is self.telemetry
LogDebateStartOf(lg) ==
  IF lg = None THEN None ELSE Some(LogDebateStart(lg[1], Expression, pace, max_rounds))
LogTurnOf(lg, t) ==
  IF lg = None THEN None ELSE Some(LogTurn(lg[1], Expression, t))

\* ---------------------------------------------------------------- prompts
\* a role-tagged message; a content is a sequence of pieces of text, the
\* responses in it character by character
Message(role, content) == [role |-> role, content |-> content]

\* the characters of the expression under debate
ExpressionText == <<"2", "+", "3">>

\* the system prompts and the few-shot examples of prompts.py (none of them
\* holds the expression under debate)
TERRENCE_SYSTEM_PROMPT == <<"You are Terrence, a brilliant mathematician ...">>
NEIL_SYSTEM_PROMPT == <<"You are Neil, a meticulous mathematical reviewer ...">>
TERRENCE_EXAMPLES ==
  <<[user |-> <<"Calculate 5 * 6 + 2">>,
     assistant |-> <<"I need to solve 5 * 6 + 2. ... The answer is 32 ...">>],
    [user |-> <<"What is the square root of 16?">>,
     assistant |-> <<"To find the square root of 16, ... The answer is 4.">>]>>
NEIL_EXAMPLES ==
  <<[terrence |-> <<"I need to solve 5 * 6 + 2. ... Then I add: 30 + 2 = 32.">>,
     assistant |-> <<"<AGREE>false</AGREE> While you correctly identified PEMDAS, ...">>],
    [terrence |-> <<"To find the square root of 16, ... the square root of 16 is 4.">>,
     assistant |-> <<"<AGREE>false</AGREE> You've identified one square root, ...">>]>>

\* "for example in TERRENCE_EXAMPLES": a user and an assistant message each
RECURSIVE TerrenceExampleMessages(_)
TerrenceExampleMessages(examples) ==
  IF examples = <<>> THEN <<>>
  ELSE <<Message("user", Head(examples).user),
         Message("assistant", Head(examples).assistant)>>
       \o TerrenceExampleMessages(Tail(examples))

\* "for example in NEIL_EXAMPLES"
RECURSIVE NeilExampleMessages(_)
NeilExampleMessages(examples) ==
  IF examples = <<>> THEN <<>>
  ELSE <<Message("user", <<"Terrence says: ">> \o Head(examples).terrence),
         Message("assistant", Head(examples).assistant)>>
       \o NeilExampleMessages(Tail(examples))

\* get_terrence_messages: the system prompt, the examples, the history when
\* there is one, and "Calculate: {expression}" only when there is none
GetTerrenceMessages(expression, conversation_history) ==
  <<Message("system", TERRENCE_SYSTEM_PROMPT)>>
    \o TerrenceExampleMessages(TERRENCE_EXAMPLES)
    \o conversation_history
    \o (IF conversation_history = <<>>
        THEN <<Message("user", <<"Calculate: ">> \o expression)>>
        ELSE <<>>)

\* get_neil_messages: the system prompt, the examples, the history and
\* "Terrence says: {terrence_response}"
GetNeilMessages(terrence_response, conversation_history) ==
  <<Message("system", NEIL_SYSTEM_PROMPT)>>
    \o NeilExampleMessages(NEIL_EXAMPLES)
    \o conversation_history
    \o <<Message("user", <<"Terrence says: ">> \o terrence_response)>>

\* get_terrence_final_prompt
GetTerrenceFinalPrompt(neil_agreement) ==
  <<"Neil has agreed: ">> \o neil_agreement
    \o <<". Please provide your final answer using the format <FINAL>answer</FINAL>.">>

\* the locals of debate / debate_sync that hold messages, at the start of
\* the try block
Prompts(history, terrence, neil, final) ==
  [phase |-> "followed", conversation_history |-> history,
   terrence_messages |-> terrence, neil_messages |-> neil,
   final_messages |-> final]

\* the message list of turn t is built, after the gap that leads to it:
\* terrence_messages from the history, neil_messages from Terrence's response
\* and conversation_history[:-1], final_messages from terrence_messages and
\* the final prompt
MessagesBuilt(t) ==
  IF prompts = NoPrompts THEN prompts
  ELSE LET history == prompts.conversation_history
       IN  CASE t = "terrence" ->
                  [prompts EXCEPT !.terrence_messages =
                     GetTerrenceMessages(ExpressionText, history)]
             [] t = "neil" ->
                  [prompts EXCEPT !.neil_messages =
                     GetNeilMessages(response, SubSeq(history, 1, Len(history) - 1))]
             [] t = "final" ->
                  [prompts EXCEPT !.final_messages =
                     prompts.terrence_messages
                       \o <<Message("user", GetTerrenceFinalPrompt(response))>>]

\* conversation_history.extend after turn t returned text: Terrence's
\* ordinary turn as an assistant message, Neil's as a user message
\* "Neil says: ..."; the finalization turn is not added
TurnInHistory(t, text) ==
  IF prompts = NoPrompts THEN prompts
  ELSE CASE t = "terrence" ->
              [prompts EXCEPT !.conversation_history =
                 Append(@, Message("assistant", text))]
         [] t = "neil" ->
              [prompts EXCEPT !.conversation_history =
                 Append(@, Message("user", <<"Neil says: ">> \o text))]
         [] t = "final" -> prompts

\* ------------------------------------------------------------ orchestrator
\* variant: the status check after the loop is missing
AfterLoopNoCheck(res) == res

\* after the loop: "if result.status == IN_PROGRESS" -> TIMEOUT
AfterLoop(res) ==
  IF res.status = IN_PROGRESS
  THEN [res EXCEPT !.status = TIMEOUT,
                   !.error_message = Some(TimeoutMessage(max_rounds))]
  ELSE res

\* variant: the except clause sets the status and leaves the message unset
ExceptHandlerNoMessage(res, e) == [res EXCEPT !.status = ERROR]

\* except Exception as e
ExceptHandler(res, e) ==
  [res EXCEPT !.status = ERROR, !.error_message = Some(StrOfException(e))]

\* variant: execute_turn records a TurnTiming also when it raises
ExecuteTurnRecordsAlways(returns) == turn_timings + 1

\* execute_turn appends its TurnTiming last, when it returns; leaving by
\* an exception (or still padding) it appends none
ExecuteTurnRecords(returns) == IF returns THEN turn_timings + 1 ELSE turn_timings

\* variant: the summary is computed also over no TurnTiming
GetTimingSummaryOverNone(n) ==
  IF mode = "debate" THEN [total_turns |-> n, pace_profile |-> pace]
  ELSE [total_turns |-> n]

\* get_timing_summary over n recorded TurnTimings: {} when there is none;
\* the PaceController of debate adds the profile, the SyncPaceController of
\* debate_sync does not
GetTimingSummary(n) ==
  IF n = 0 THEN EmptyDict
  ELSE IF mode = "debate" THEN [total_turns |-> n, pace_profile |-> pace]
  ELSE [total_turns |-> n]

\* the finally block: total_time and timing_summary are stored, then
\* log_debate_end(result); then the result is returned, or the exception in
\* flight (pending) goes on to the caller
Finally(res, lg, pending, f) ==
  LET end_raises == lg # None /\ f.exit = "log_debate_end"
      out == IF end_raises THEN Some(TelemetryError) ELSE pending
      res1 == [res EXCEPT !.total_time = "elapsed",
                          !.timing_summary = GetTimingSummary(turn_timings')]
  IN  /\ result' = res1
      /\ telemetry' = IF lg = None \/ end_raises THEN lg
                      ELSE Some(LogDebateEnd(lg[1], res1, f.exit # "write_metrics"))
      /\ escaped' = out
      /\ pc' = IF out = None THEN "done" ELSE "raised"
      /\ UNCHANGED <<turn, round_num, calls, gaps>>

\* an exception e raised inside the try block: the except clause with its
\* log_error("debate_failed", ...), then the finally block
Abort(res, lg, e, f) ==
  LET error_raises == lg # None /\ f.exit = "log_error"
  IN  /\ Finally(ExceptHandler(res, e), lg,
                 IF error_raises THEN Some(TelemetryError) ELSE None, f)
      /\ caught' = Some(e)
      /\ UNCHANGED notified

\* the loop is left without an exception
Return(res, lg, f) ==
  /\ Finally(res, lg, None, f)
  /\ attempt' = 0
  /\ UNCHANGED <<caught, notified>>

\* the callback, when attached, has delivered one more notification
Notified == notified \/ progress_callback = "attached"

\* execute_turn is entered for turn t: "thinking..." is notified and the
\* model call is issued
IssueCall(t, r, res, lg, f) ==
  IF f.cb
  THEN Abort(res, lg, CallbackError, f) /\ attempt' = 0
  ELSE /\ pc' = "call"
       /\ turn' = t
       /\ round_num' = r
       /\ result' = res
       /\ attempt' = 1
       /\ calls' = [calls EXCEPT ![Speaker(t)] = @ + 1]
       /\ telemetry' = lg
       /\ notified' = Notified
       /\ UNCHANGED <<gaps, caught, escaped>>

\* inter_turn_gap is entered: "Transitioning..." is notified and the sleep
\* begins; t is the turn that follows it
IssueGap(t, res, lg, f) ==
  IF f.cb
  THEN Abort(res, lg, CallbackError, f) /\ attempt' = 0
  ELSE /\ pc' = "gap"
       /\ turn' = t
       /\ result' = res
       /\ attempt' = 0
       /\ gaps' = gaps + 1
       /\ telemetry' = lg
       /\ notified' = Notified
       /\ UNCHANGED <<round_num, calls, caught, escaped>>

\* variants of the range test: one round short, one round long
RangeStopsEarly(r) == r < max_rounds - 1
RangeRunsOver(r) == r <= max_rounds

\* "for round_num in range(max_rounds)" reaching index r
RangeHasNext(r) == r < max_rounds

\* variant: rounds counts the rounds finished before the one entered
EnterRoundCountsFinished(r, res, lg, f) ==
  IF RangeHasNext(r)
  THEN IssueCall("terrence", r, [res EXCEPT !.rounds = r], lg, f)
  ELSE Return(AfterLoop(res), lg, f)

\* variant: the status check after the loop is skipped when the range is
\* exhausted
EnterRoundNoCheck(r, res, lg, f) ==
  IF RangeHasNext(r)
  THEN IssueCall("terrence", r, [res EXCEPT !.rounds = r + 1], lg, f)
  ELSE Return(res, lg, f)

\* "for round_num in range(max_rounds)": the next round, or the code after
\* the loop
EnterRound(r, res, lg, f) ==
  IF RangeHasNext(r)
  THEN IssueCall("terrence", r, [res EXCEPT !.rounds = r + 1], lg, f)
  ELSE Return(AfterLoop(res), lg, f)

\* variant: a gap follows the Critic turn of every round, the last included
GapAfterEveryRound(r) == TRUE

\* "if round_num < max_rounds - 1": a gap before the next round
GapBeforeNextRound(r) == r < max_rounds - 1

\* variant: anything but an explicit false counts as agreement
IsAgreementNotFalse(flag) == flag # Some(FALSE)

\* variant: an absent flag counts as agreement
IsAgreementOrAbsent(flag) == flag = None \/ flag = Some(TRUE)

\* "if agreement is True"
IsAgreement(flag) == flag = Some(TRUE)

\* the DebateTurn recorded for turn t returning text
TurnOf(t, text) ==
  DebateTurn(Speaker(t), text, IF t = "neil" THEN ExtractAgreement(text) ELSE None)

\* variant: the ordinary turn is not inspected for a final answer
TerrenceTurnDoneNoCheck(text, lg, f) ==
  IssueGap("neil",
           [result EXCEPT !.turns = Append(@, DebateTurn("Terrence", text, None))],
           lg, f)

\* variant: a final answer in an ordinary turn completes the result but
\* does not break the loop
TerrenceTurnDoneNoBreak(text, lg, f) ==
  LET res1 == [result EXCEPT !.turns = Append(@, DebateTurn("Terrence", text, None))]
      final_answer == ExtractFinalAnswer(text)
  IN  IF Truthy(final_answer)
      THEN IssueGap("neil", [res1 EXCEPT !.final_answer = final_answer,
                                         !.status = COMPLETED], lg, f)
      ELSE IssueGap("neil", res1, lg, f)

\* Terrence's ordinary turn returned text and was logged
TerrenceTurnDone(text, lg, f) ==
  LET res1 == [result EXCEPT !.turns = Append(@, DebateTurn("Terrence", text, None))]
      final_answer == ExtractFinalAnswer(text)
  IN  IF Truthy(final_answer)
      THEN Return(AfterLoop([res1 EXCEPT !.final_answer = final_answer,
                                         !.status = COMPLETED]), lg, f)
      ELSE IssueGap("neil", res1, lg, f)

\* variant: after a disagreement the Critic is asked again at once
NeilTurnDoneAsksAgain(text, lg, f) ==
  LET agreement == ExtractAgreement(text)
      res1 == [result EXCEPT !.turns = Append(@, DebateTurn("Neil", text, agreement))]
  IN  IF IsAgreement(agreement)
      THEN IssueGap("final", res1, lg, f)
      ELSE IssueCall("neil", round_num, res1, lg, f)

\* variant: the agreement is recorded but not acted on
NeilTurnDoneGoesOn(text, lg, f) ==
  LET agreement == ExtractAgreement(text)
      res1 == [result EXCEPT !.turns = Append(@, DebateTurn("Neil", text, agreement))]
  IN  IF GapBeforeNextRound(round_num)
      THEN IssueGap("terrence", res1, lg, f)
      ELSE EnterRound(round_num + 1, res1, lg, f)

\* Neil's turn returned text and was logged
NeilTurnDone(text, lg, f) ==
  LET agreement == ExtractAgreement(text)
      res1 == [result EXCEPT !.turns = Append(@, DebateTurn("Neil", text, agreement))]
  IN  IF IsAgreement(agreement)
      THEN IssueGap("final", res1, lg, f)
      ELSE IF GapBeforeNextRound(round_num)
           THEN IssueGap("terrence", res1, lg, f)
           ELSE EnterRound(round_num + 1, res1, lg, f)

\* variant: a finalization turn without an answer does not break the loop
FinalTurnDoneNoBreak(text, lg, f) ==
  LET res1 == [result EXCEPT !.turns = Append(@, DebateTurn("Terrence", text, None))]
      final_answer == ExtractFinalAnswer(text)
      res2 == [res1 EXCEPT !.status = ERROR, !.error_message = Some(NoFinalMessage)]
  IN  IF Truthy(final_answer)
      THEN Return(AfterLoop([res1 EXCEPT !.final_answer = final_answer,
                                         !.status = COMPLETED]), lg, f)
      ELSE IF GapBeforeNextRound(round_num)
           THEN IssueGap("terrence", res2, lg, f)
           ELSE EnterRound(round_num + 1, res2, lg, f)

\* variant: a finalization turn without an answer is requested again
FinalTurnDoneAsksAgain(text, lg, f) ==
  LET res1 == [result EXCEPT !.turns = Append(@, DebateTurn("Terrence", text, None))]
      final_answer == ExtractFinalAnswer(text)
  IN  IF Truthy(final_answer)
      THEN Return(AfterLoop([res1 EXCEPT !.final_answer = final_answer,
                                         !.status = COMPLETED]), lg, f)
      ELSE IssueCall("final", round_num, res1, lg, f)

\* Terrence's finalization turn returned text and was logged
FinalTurnDone(text, lg, f) ==
  LET res1 == [result EXCEPT !.turns = Append(@, DebateTurn("Terrence", text, None))]
      final_answer == ExtractFinalAnswer(text)
  IN  IF Truthy(final_answer)
      THEN Return(AfterLoop([res1 EXCEPT !.final_answer = final_answer,
                                         !.status = COMPLETED]), lg, f)
      ELSE Return(AfterLoop([res1 EXCEPT !.status = ERROR,
                                         !.error_message = Some(NoFinalMessage)]),
                  lg, f)

\* execute_turn returned text: the turn is appended to result.turns and
\* handed to log_turn, then inspected
TurnDone(text, f) ==
  IF f.tel
  THEN /\ Abort([result EXCEPT !.turns = Append(@, TurnOf(turn, text))],
                telemetry, TelemetryError, f)
       /\ attempt' = 0
  ELSE LET lg == LogTurnOf(telemetry, TurnOf(turn, text))
       IN  CASE turn = "terrence" -> TerrenceTurnDone(text, lg, f)
             [] turn = "neil" -> NeilTurnDone(text, lg, f)
             [] turn = "final" -> FinalTurnDone(text, lg, f)

\* variant: any pace has a profile
KnownPaceAny(p) == TRUE

\* get_pacing_profile: the paces that have a profile
KnownPace(p) == p \in ValidPaces

\* debate / debate_sync up to the first suspension point: the profile
\* lookup, the result, log_debate_start, the first round
Start ==
  /\ pc = "start"
  /\ turn_timings' = 0
  /\ \E f \in Faults :
       /\ prompts' = IF KnownPace(pace) /\ ~f.tel /\ RangeHasNext(0)
                      THEN MessagesBuilt("terrence") ELSE prompts
       /\ IF ~KnownPace(pace)
          THEN /\ pc' = "raised"
               /\ escaped' = Some(ValueError(pace))
               /\ UNCHANGED <<turn, round_num, result, attempt, calls, gaps,
                              caught, telemetry, notified>>
          ELSE IF f.tel
          THEN /\ Abort(DebateResult(IN_PROGRESS), telemetry, TelemetryError, f)
               /\ UNCHANGED attempt
          ELSE EnterRound(0, DebateResult(IN_PROGRESS), LogDebateStartOf(telemetry), f)
  /\ UNCHANGED <<args, aside, backoff, response>>

\* ------------------------------------------------------------ retry policy
\* the calls of debate go through @retry, those of debate_sync do not
Retrying == mode = "debate"

\* variants of the stop condition: one attempt fewer, one attempt more
StopRetryEarly(n) == n >= StopAfterAttempt - 1
StopRetryLate(n) == n > StopAfterAttempt

\* stop_after_attempt(3)
StopRetry(n) == n >= StopAfterAttempt

Min(a, b) == IF a < b THEN a ELSE b
Max(a, b) == IF a > b THEN a ELSE b
\* variant: the exponent is the attempt number, not the attempt number - 1
WaitExponentialFromAttempt(n) ==
  Max(Max(0, WaitMin), Min(WaitMultiplier * 2 ^ n, WaitMax))

\* wait_exponential(multiplier=2, min=1, max=10) after failed attempt n
WaitExponential(n) ==
  Max(Max(0, WaitMin), Min(WaitMultiplier * 2 ^ (n - 1), WaitMax))

\* an attempt of the model call returns raw text; the call strips it.
\* execute_turn then pads the turn when the call was faster than the
\* jittered minimum ("finalizing..." is notified and the sleep begins), else
\* it returns at once.
CallSucceeds ==
  /\ pc = "call"
  /\ \E text \in Responses, padding_needed \in BOOLEAN, f \in Faults :
       /\ response' = text
       /\ turn_timings' = ExecuteTurnRecords(~padding_needed)
       /\ prompts' = IF padding_needed THEN prompts ELSE TurnInHistory(turn, text)
       /\ IF padding_needed
          THEN IF f.cb
               THEN Abort(result, telemetry, CallbackError, f) /\ attempt' = 0
               ELSE /\ pc' = "pad"
                    /\ notified' = Notified
                    /\ UNCHANGED <<turn, round_num, result, attempt, calls, gaps,
                                   caught, telemetry, escaped>>
          ELSE TurnDone(text, f)
  /\ UNCHANGED <<args, aside, backoff>>

\* an attempt of the model call raises.  Behind @retry (retrying),
\* _call_terrence / _call_neil hand the failure to log_error (which may raise
\* in its place) and re-raise, and tenacity waits and calls again or gives up
\* with RetryError; a direct client call raises to execute_turn at once.
CallFailsIn(retrying) ==
  /\ pc = "call"
  /\ turn_timings' = ExecuteTurnRecords(FALSE)
  /\ \E d \in ProviderErrors, f \in Faults :
       LET last == IF retrying /\ f.tel THEN TelemetryError ELSE ProviderError(d)
       IN  IF retrying /\ ~StopRetry(attempt)
           THEN /\ pc' = "backoff"
                /\ backoff' = WaitExponential(attempt)
                /\ UNCHANGED <<turn, round_num, result, attempt, caught, calls,
                               gaps, telemetry, notified, escaped>>
           ELSE /\ Abort(result, telemetry,
                         IF retrying THEN RetryError(last) ELSE last, f)
                /\ UNCHANGED <<attempt, backoff>>
  /\ UNCHANGED <<args, aside, response, prompts>>

CallFails == CallFailsIn(Retrying)

\* the retry wait is over: the next attempt is made
BackoffSleep ==
  /\ pc = "backoff"
  /\ pc' = "call"
  /\ attempt' = attempt + 1
  /\ backoff' = 0
  /\ UNCHANGED <<args, aside, turn, round_num, result, response, caught, calls, gaps,
                 telemetry, notified, escaped, turn_timings, prompts>>

\* ---------------------------------------------------------- pace controller
\* the padding sleep of execute_turn is over: the turn is returned
PaddingSleep ==
  /\ pc = "pad"
  /\ turn_timings' = ExecuteTurnRecords(TRUE)
  /\ prompts' = TurnInHistory(turn, response)
  /\ \E f \in Faults : TurnDone(response, f)
  /\ UNCHANGED <<args, aside, backoff, response>>

\* the sleep of inter_turn_gap is over: the code after it runs
InterTurnGap ==
  /\ pc = "gap"
  /\ UNCHANGED turn_timings
  /\ prompts' = IF turn = "terrence" /\ ~RangeHasNext(round_num + 1)
                 THEN prompts ELSE MessagesBuilt(turn)
  /\ \E f \in Faults :
       IF turn = "terrence"
       THEN EnterRound(round_num + 1, result, telemetry, f)
       ELSE IssueCall(turn, round_num, result, telemetry, f)
  /\ UNCHANGED <<args, aside, backoff, response>>

\* the task running debate is cancelled while it is suspended (in a model
\* call, a retry wait, a padding sleep or a gap): CancelledError is raised at
\* the await, passes "except Exception", and the finally block runs
Cancel ==
  /\ pc \in {"call", "backoff", "pad", "gap"}
  /\ mode = "debate"
  /\ UNCHANGED turn_timings
  /\ \E f \in Faults : Finally(result, telemetry, Some(CancelledError), f)
  /\ attempt' = 0
  /\ backoff' = 0
  /\ UNCHANGED <<args, aside, response, caught, notified, prompts>>

Next ==
  \/ Start
  \/ CallSucceeds
  \/ CallFails
  \/ BackoffSleep
  \/ PaddingSleep
  \/ InterTurnGap

Spec == Init /\ [][Next]_vars

\* debate / debate_sync with a progress callback and a telemetry logger that
\* may fail, and with cancellation of the task
InitFaults ==
  /\ mode \in Modes
  /\ pace \in PaceInputs
  /\ max_rounds \in -1..MaxRoundsFaults
  /\ pc = "start"
  /\ turn = "terrence"
  /\ round_num = 0
  /\ result = DebateResult(NOT_STARTED)
  /\ attempt = 0
  /\ backoff = 0
  /\ response = <<>>
  /\ caught = None
  /\ calls = [Terrence |-> 0, Neil |-> 0]
  /\ gaps = 0
  /\ progress_callback \in {"none", "attached"}
  /\ telemetry \in {None, Some(TelemetryLogger)}
  /\ notified = FALSE
  /\ escaped = None
  /\ other = NoOther
  /\ timing = NoTiming
  /\ turn_timings = 0
  /\ sinks = "faulty"
  /\ events = <<>>
  /\ runs = NoRuns
  /\ extraction = NoExtraction
  /\ prompts = NoPrompts

NextFaults ==
  \/ Start
  \/ CallSucceeds
  \/ CallFails
  \/ BackoffSleep
  \/ PaddingSleep
  \/ InterTurnGap
  \/ Cancel

SpecFaults == InitFaults /\ [][NextFaults]_vars

\* ------------------------------------------------------ a second debate
\* Another debate(OtherExpression, max_rounds=1, pace) runs as a second task
\* on the same orchestrator, hence on the same TelemetryLogger
\* (self.telemetry, created once in __init__).  Its Solver answers without a
\* tag and its Critic disagrees, so it ends TIMEOUT after two turns; its
\* steps interleave with those of the first debate at the suspension points.
OtherExpression == "7*6"
OtherTurns ==
  <<DebateTurn("Terrence", TextPlain, None),
    DebateTurn("Neil", Strip(TextAgreeFalse), Some(FALSE))>>
OtherResult ==
  [status |-> TIMEOUT, final_answer |-> None, rounds |-> 1, turns |-> OtherTurns,
   total_time |-> "elapsed", error_message |-> Some(TimeoutMessage(1)),
   timing_summary |-> [total_turns |-> Len(OtherTurns), pace_profile |-> pace]]

\* the second debate starts: log_debate_start
OtherStarts ==
  /\ other.pc = "idle"
  /\ other' = [other EXCEPT !.pc = "running"]
  /\ telemetry' = Some(LogDebateStart(telemetry[1], OtherExpression, pace, 1))
  /\ UNCHANGED <<args, timing, pc, turn, round_num, result, attempt, backoff,
                 response, caught, calls, gaps, notified, escaped,
                 turn_timings, events, runs, extraction, prompts>>

\* a turn of the second debate is recorded: log_turn
OtherLogsTurn ==
  /\ other.pc = "running"
  /\ other.turns < Len(OtherTurns)
  /\ other' = [other EXCEPT !.turns = @ + 1]
  /\ telemetry' = Some(LogTurn(telemetry[1], OtherExpression,
                                OtherTurns[other.turns + 1]))
  /\ UNCHANGED <<args, timing, pc, turn, round_num, result, attempt, backoff,
                 response, caught, calls, gaps, notified, escaped,
                 turn_timings, events, runs, extraction, prompts>>

\* the second debate ends: log_debate_end in its finally block
OtherEnds ==
  /\ other.pc = "running"
  /\ other.turns = Len(OtherTurns)
  /\ other' = [other EXCEPT !.pc = "returned"]
  /\ telemetry' = Some(LogDebateEnd(telemetry[1], OtherResult, TRUE))
  /\ UNCHANGED <<args, timing, pc, turn, round_num, result, attempt, backoff,
                 response, caught, calls, gaps, notified, escaped,
                 turn_timings, events, runs, extraction, prompts>>

InitConcurrent ==
  /\ mode = "debate"
  /\ pace = "slow"
  /\ max_rounds \in 0..MaxRoundsConcurrent
  /\ pc = "start"
  /\ turn = "terrence"
  /\ round_num = 0
  /\ result = DebateResult(NOT_STARTED)
  /\ attempt = 0
  /\ backoff = 0
  /\ response = <<>>
  /\ caught = None
  /\ calls = [Terrence |-> 0, Neil |-> 0]
  /\ gaps = 0
  /\ progress_callback = "none"
  /\ telemetry = Some(TelemetryLogger)
  /\ notified = FALSE
  /\ escaped = None
  /\ other = [pc |-> "idle", turns |-> 0]
  /\ timing = NoTiming
  /\ turn_timings = 0
  /\ sinks = "reliable"
  /\ events = <<>>
  /\ runs = NoRuns
  /\ extraction = NoExtraction
  /\ prompts = NoPrompts

NextConcurrent ==
  \/ Start
  \/ CallSucceeds
  \/ CallFails
  \/ BackoffSleep
  \/ PaddingSleep
  \/ InterTurnGap
  \/ OtherStarts
  \/ OtherLogsTurn
  \/ OtherEnds

SpecConcurrent == InitConcurrent /\ [][NextConcurrent]_vars

\* ----------------------------------------------------- execute_turn, timed
\* PaceController.execute_turn and SyncPaceController.execute_turn (the same
\* statements) taken alone, with the clock readings they make.  Times are
\* integers, in milliseconds.
LatencyStep == 50
Latencies == {LatencyStep * k : k \in 0..MaxLatencySteps}
ClockLags == 0..MaxClockLag
StartTimes == {0, 1000}
\* min_turn_seconds of the slow, medium and fast profiles of the settings
\* and of the fast profile of the tests
MinTurnSeconds == {2000, 1200, 600, 100}

\* inter_turn_gap_seconds of the slow, medium and fast profiles of the
\* settings and of the slow and fast profiles of the tests
InterTurnGapSeconds == {1000, 600, 300, 200, 50}
\* settings.jitter_percentage, in per cent: the default and the ends of the
\* range the validator admits
JitterPercentages == {0, JitterPercentage, 100}

\* random.uniform(-jitter_range, jitter_range), with
\* jitter_range = base_time * jitter_percentage
JitterDrawsAt(base_time, percentage) ==
  {(base_time * percentage * k) \div (100 * JitterSteps) :
     k \in (-JitterSteps)..JitterSteps}

\* the draws at the default jitter_percentage
JitterDraws(base_time) == JitterDrawsAt(base_time, JitterPercentage)

\* variant: the jittered time has no floor
ApplyJitterNoFloor(base_time, jitter) == base_time + jitter

\* _apply_jitter with the draw made explicit
ApplyJitter(base_time, jitter) == Max(JitterFloor, base_time + jitter)

\* "if progress_callback: progress_callback(...)": the event, when a
\* callback is attached
Emit(event) == IF progress_callback = "attached" THEN <<event>> ELSE <<>>

\* variant: "finalizing..." is notified and the sleep made whatever the
\* padding
PaddingEventsAlways(padding_needed) == Emit("finalizing") \o <<"sleep">>

\* "if padding_needed > 0": "finalizing..." is notified, then the sleep
PaddingEvents(padding_needed) ==
  IF padding_needed > 0 THEN Emit("finalizing") \o <<"sleep">> ELSE <<>>

\* inter_turn_gap about to run for a profile and a jitter percentage
GapTiming(phase, base, percentage, gap_time) ==
  [phase |-> phase, inter_turn_gap_seconds |-> base,
   jitter_percentage |-> percentage, gap_time |-> gap_time]

\* variant: the difference is not clamped at 0
PaddingNeededUnclamped(min_turn_time, elapsed_time) == min_turn_time - elapsed_time

\* padding_needed = max(0, min_turn_time - elapsed_time)
PaddingNeeded(min_turn_time, elapsed_time) == Max(0, min_turn_time - elapsed_time)

\* TurnTiming, with min_turn_seconds of the profile beside it
TurnTiming(phase, base, start_time, model_latency, padding_time, total_time, jitter_applied) ==
  [phase |-> phase, min_turn_seconds |-> base,
   start_time |-> start_time, model_latency |-> model_latency,
   padding_time |-> padding_time, total_time |-> total_time,
   jitter_applied |-> jitter_applied]

debate_vars == <<mode, pace, max_rounds, pc, turn, round_num, result, attempt,
                 backoff, response, caught, calls, gaps, progress_callback,
                 telemetry, notified, escaped, other, turn_timings, sinks,
                 prompts>>

\* execute_turn is entered: start_time is read, "thinking..." is notified
\* and the model call is invoked
TimedTurnBegins ==
  /\ timing.phase = "entered"
  /\ \E start_time \in StartTimes :
       timing' = [timing EXCEPT !.phase = "calling", !.start_time = start_time]
  /\ events' = events \o Emit("thinking") \o <<"model_call">>
  /\ UNCHANGED <<debate_vars, runs, extraction>>

\* the model call returns after model_latency: the jittered minimum is drawn
\* and the padding computed; with padding "finalizing..." is notified and
\* the sleep begins, without it total_time is read at once and the
\* TurnTiming is returned
TimedCallReturns ==
  /\ timing.phase = "calling"
  /\ \E model_latency \in Latencies,
        jitter \in JitterDraws(timing.min_turn_seconds),
        lag \in ClockLags :
       LET model_end_time == timing.start_time + model_latency
           min_turn_time == ApplyJitter(timing.min_turn_seconds, jitter)
           elapsed_time == model_end_time - timing.start_time
           padding_needed == PaddingNeeded(min_turn_time, elapsed_time)
       IN  /\ timing' =
             IF padding_needed > 0
             THEN TurnTiming("sleeping", timing.min_turn_seconds,
                             timing.start_time, model_latency, padding_needed, 0,
                             min_turn_time - timing.min_turn_seconds)
             ELSE TurnTiming("returned", timing.min_turn_seconds,
                             timing.start_time, model_latency, padding_needed,
                             (model_end_time + lag) - timing.start_time,
                             min_turn_time - timing.min_turn_seconds)
           /\ events' = events \o PaddingEvents(padding_needed)
  /\ UNCHANGED <<debate_vars, runs, extraction>>

\* the model call raises after model_latency: the except clause reads the
\* clock, computes model_latency and re-raises at once; no minimum is drawn,
\* nothing is slept and no TurnTiming is recorded
TimedCallRaises ==
  /\ timing.phase = "calling"
  /\ \E model_latency \in Latencies :
       timing' = [timing EXCEPT !.phase = "raised",
                                !.model_latency = model_latency]
  /\ UNCHANGED <<debate_vars, events, runs, extraction>>

\* the padding sleep is over, no earlier than requested: total_time is read
\* from the clock and the TurnTiming is returned
TimedSleepEnds ==
  /\ timing.phase = "sleeping"
  /\ \E lag \in ClockLags :
       LET now == timing.start_time + timing.model_latency
                    + timing.padding_time + lag
       IN  timing' = [timing EXCEPT !.phase = "returned",
                                    !.total_time = now - timing.start_time]
  /\ UNCHANGED <<debate_vars, events, runs, extraction>>

\* inter_turn_gap is entered: the jittered gap is drawn, "Transitioning..."
\* is notified and the sleep begins
TimedGapBegins ==
  /\ timing.phase = "gap_entered"
  /\ \E jitter \in JitterDrawsAt(timing.inter_turn_gap_seconds,
                                  timing.jitter_percentage) :
       timing' = [timing EXCEPT
                    !.phase = "gap_sleeping",
                    !.gap_time = ApplyJitter(timing.inter_turn_gap_seconds, jitter)]
  /\ events' = events \o Emit("transitioning") \o <<"sleep">>
  /\ UNCHANGED <<debate_vars, runs, extraction>>

\* the sleep of inter_turn_gap is over: it returns
TimedGapEnds ==
  /\ timing.phase = "gap_sleeping"
  /\ timing' = [timing EXCEPT !.phase = "gap_returned"]
  /\ UNCHANGED <<debate_vars, events, runs, extraction>>

InitTiming ==
  /\ mode \in Modes
  /\ pace = "slow"
  /\ max_rounds = 0
  /\ pc = "start"
  /\ turn = "terrence"
  /\ round_num = 0
  /\ result = DebateResult(NOT_STARTED)
  /\ attempt = 0
  /\ backoff = 0
  /\ response = <<>>
  /\ caught = None
  /\ calls = [Terrence |-> 0, Neil |-> 0]
  /\ gaps = 0
  /\ progress_callback \in {"none", "attached"}
  /\ telemetry = None
  /\ notified = FALSE
  /\ escaped = None
  /\ other = NoOther
  /\ turn_timings = 0
  /\ sinks = "reliable"
  /\ events = <<>>
  /\ runs = NoRuns
  /\ extraction = NoExtraction
  /\ prompts = NoPrompts
  /\ \/ \E min_turn_seconds \in MinTurnSeconds :
          timing = TurnTiming("entered", min_turn_seconds, 0, 0, 0, 0, 0)
     \/ \E inter_turn_gap_seconds \in InterTurnGapSeconds,
           jitter_percentage \in JitterPercentages :
          timing = GapTiming("gap_entered", inter_turn_gap_seconds,
                             jitter_percentage, 0)

NextTiming ==
  \/ TimedTurnBegins
  \/ TimedCallReturns
  \/ TimedCallRaises
  \/ TimedSleepEnds
  \/ TimedGapBegins
  \/ TimedGapEnds

SpecTiming == InitTiming /\ [][NextTiming]_vars

\* ------------------------------------------- one transcript, two profiles
\* variant: the values of the slow and of the fast profile change places
GetPacingProfileSwapped(p) ==
  CASE p = "fast" -> [min_turn_seconds |-> 2000, inter_turn_gap_seconds |-> 1000]
    [] p = "medium" -> [min_turn_seconds |-> 1200, inter_turn_gap_seconds |-> 600]
    [] p = "slow" -> [min_turn_seconds |-> 600, inter_turn_gap_seconds |-> 300]

\* get_pacing_profile with the default settings, in milliseconds
GetPacingProfile(p) ==
  CASE p = "slow" -> [min_turn_seconds |-> 2000, inter_turn_gap_seconds |-> 1000]
    [] p = "medium" -> [min_turn_seconds |-> 1200, inter_turn_gap_seconds |-> 600]
    [] p = "fast" -> [min_turn_seconds |-> 600, inter_turn_gap_seconds |-> 300]

\* latencies of the model calls of the transcript: below the fast minimum,
\* between the two minimums, and above every jittered slow minimum
TranscriptLatencies == {100, 650, 1800, 2300, 3000}

\* what execute_turn makes a turn last under profile p: the model latency
\* and the padding it asks asyncio.sleep / time.sleep for
TurnDuration(p, model_latency, jitter) ==
  LET min_turn_time == ApplyJitter(GetPacingProfile(p).min_turn_seconds, jitter)
  IN  model_latency + PaddingNeeded(min_turn_time, model_latency)

\* what inter_turn_gap asks the sleep for under profile p
GapDuration(p, jitter) ==
  ApplyJitter(GetPacingProfile(p).inter_turn_gap_seconds, jitter)

\* the next turn of the transcript is executed in both runs: the model
\* answers after the same latency, each run draws its own jitter
PacedTurn ==
  /\ runs.phase = "turn_due"
  /\ \E model_latency \in TranscriptLatencies,
        jitter_fast \in JitterDraws(GetPacingProfile("fast").min_turn_seconds),
        jitter_slow \in JitterDraws(GetPacingProfile("slow").min_turn_seconds) :
       runs' = [runs EXCEPT
                  !.phase = "turn_done",
                  !.turns = @ + 1,
                  !.least_latency = Min(@, model_latency),
                  !.fast = @ + TurnDuration("fast", model_latency, jitter_fast),
                  !.slow = @ + TurnDuration("slow", model_latency, jitter_slow)]
  /\ UNCHANGED <<debate_vars, timing, events, extraction>>

\* the transcript goes on: inter_turn_gap runs in both runs, each with its
\* own jitter
PacedGap ==
  /\ runs.phase = "turn_done"
  /\ runs.turns < MaxPacedTurns
  /\ \E jitter_fast \in JitterDraws(GetPacingProfile("fast").inter_turn_gap_seconds),
        jitter_slow \in JitterDraws(GetPacingProfile("slow").inter_turn_gap_seconds) :
       runs' = [runs EXCEPT
                  !.phase = "turn_due",
                  !.gaps = @ + 1,
                  !.fast = @ + GapDuration("fast", jitter_fast),
                  !.slow = @ + GapDuration("slow", jitter_slow)]
  /\ UNCHANGED <<debate_vars, timing, events, extraction>>

\* no debate is driven: the variables of debate / debate_sync at rest
NoDebate ==
  /\ mode = "debate"
  /\ pace = "slow"
  /\ max_rounds = 0
  /\ pc = "start"
  /\ turn = "terrence"
  /\ round_num = 0
  /\ result = DebateResult(NOT_STARTED)
  /\ attempt = 0
  /\ backoff = 0
  /\ response = <<>>
  /\ caught = None
  /\ calls = [Terrence |-> 0, Neil |-> 0]
  /\ gaps = 0
  /\ progress_callback = "none"
  /\ telemetry = None
  /\ notified = FALSE
  /\ escaped = None
  /\ other = NoOther
  /\ turn_timings = 0
  /\ sinks = "reliable"

InitScenarioE ==
  /\ NoDebate
  /\ timing = NoTiming
  /\ events = <<>>
  /\ extraction = NoExtraction
  /\ prompts = NoPrompts
  /\ runs = [phase |-> "turn_due", turns |-> 0, gaps |-> 0,
             least_latency |-> 3000, fast |-> 0, slow |-> 0]

NextScenarioE ==
  \/ PacedTurn
  \/ PacedGap

SpecScenarioE == InitScenarioE /\ [][NextScenarioE]_vars

\* ------------------------------------------------- the extractors, alone
\* Texts handed to _extract_agreement and _extract_final_answer are put
\* together from pieces: well-formed agreement tags, opening and closing
\* finalization tags, and other text (kind "word": whitespace, words, a tag
\* that is not well formed).
\* "<AGREE>true</AGREE>"
AgreeTrueTag ==
  [kind |-> "agree", value |-> TRUE, text |-> <<"<", "A", "G", "R", "E",
  "E", ">", "t", "r", "u", "e", "<", "/", "A", "G", "R", "E", "E", ">">>]
\* "<agree>TRUE</Agree>": the case of tag and literal varies
AgreeTrueMixedTag ==
  [kind |-> "agree", value |-> TRUE, text |-> <<"<", "a", "g", "r", "e",
  "e", ">", "T", "R", "U", "E", "<", "/", "A", "g", "r", "e", "e", ">">>]
\* "<Agree>False</agree>"
AgreeFalseMixedTag ==
  [kind |-> "agree", value |-> FALSE, text |-> <<"<", "A", "g", "r", "e",
  "e", ">", "F", "a", "l", "s", "e", "<", "/", "a", "g", "r", "e", "e",
  ">">>]
\* "<AGREE> true </AGREE>": not well formed, the literal is padded
AgreeSpacedTag ==
  [kind |-> "word", value |-> FALSE, text |-> <<"<", "A", "G", "R", "E",
  "E", ">", " ", "t", "r", "u", "e", " ", "<", "/", "A", "G", "R", "E", "E",
  ">">>]
\* "<FINAL>"
FinalOpenTag ==
  [kind |-> "final_open", value |-> FALSE, text |-> <<"<", "F", "I", "N",
  "A", "L", ">">>]
\* "<final>"
FinalOpenLowerTag ==
  [kind |-> "final_open", value |-> FALSE, text |-> <<"<", "f", "i", "n",
  "a", "l", ">">>]
\* "</Final>"
FinalCloseMixedTag ==
  [kind |-> "final_close", value |-> FALSE, text |-> <<"<", "/", "F", "i",
  "n", "a", "l", ">">>]
\* " "
SpacePiece ==
  [kind |-> "word", value |-> FALSE, text |-> <<" ">>]
\* "\n 5\t": a word inside whitespace
PaddedWordPiece ==
  [kind |-> "word", value |-> FALSE, text |-> <<"\n", " ", "5", "\t">>]
\* "x"
WordPiece ==
  [kind |-> "word", value |-> FALSE, text |-> <<"x">>]
Pieces ==
  {AgreeTrueTag, AgreeTrueMixedTag, AgreeFalseMixedTag, AgreeSpacedTag,
   FinalOpenTag, FinalOpenLowerTag, FinalCloseMixedTag, SpacePiece,
   PaddedWordPiece, WordPiece}

PieceSeqs == UNION {[1..n -> Pieces] : n \in 0..MaxPieces}

\* the text the pieces make
RECURSIVE Concat(_)
Concat(ps) == IF ps = <<>> THEN <<>> ELSE Head(ps).text \o Concat(Tail(ps))

\* variant: the pattern object keeps its position, a repeated call finds
\* nothing more
ExtractorCallResuming(op, text, n) ==
  IF n > 1 THEN None
  ELSE IF op = "agreement" THEN ExtractAgreement(text)
  ELSE ExtractFinalAnswer(text)

\* the n-th call self._extract_agreement(text) / self._extract_final_answer(text):
\* both search the text with a compiled pattern and touch nothing else
ExtractorCall(op, text, n) ==
  IF op = "agreement" THEN ExtractAgreement(text) ELSE ExtractFinalAnswer(text)

\* an extractor is called on the text and returns
ExtractorCalled(op) ==
  /\ extraction.phase = "given"
  /\ Len(extraction.outputs[op]) < MaxExtractorCalls
  /\ extraction' =
       [extraction EXCEPT !.outputs[op] =
          Append(@, ExtractorCall(op, extraction.text, Len(@) + 1))]
  /\ UNCHANGED <<debate_vars, timing, events, runs>>

ExtractAgreementCalled == ExtractorCalled("agreement")
ExtractFinalAnswerCalled == ExtractorCalled("final_answer")

\* a text and no call made on it yet
Given(ps, text) ==
  [phase |-> "given", pieces |-> ps, text |-> text,
   outputs |-> [agreement |-> <<>>, final_answer |-> <<>>]]

InitExtract ==
  /\ NoDebate
  /\ timing = NoTiming
  /\ events = <<>>
  /\ runs = NoRuns
  /\ prompts = NoPrompts
  /\ \E ps \in PieceSeqs : extraction = Given(ps, Concat(ps))

NextExtract ==
  \/ ExtractAgreementCalled
  \/ ExtractFinalAnswerCalled

SpecExtract == InitExtract /\ [][NextExtract]_vars

\* ------------------------------------- the extractors, beside a debate
\* debate / debate_sync of one round with telemetry enabled, and beside it
\* calls of the extractors on one of the texts a provider returns
InitExtractDuring ==
  /\ mode \in Modes
  /\ pace = "slow"
  /\ max_rounds = 1
  /\ pc = "start"
  /\ turn = "terrence"
  /\ round_num = 0
  /\ result = DebateResult(NOT_STARTED)
  /\ attempt = 0
  /\ backoff = 0
  /\ response = <<>>
  /\ caught = None
  /\ calls = [Terrence |-> 0, Neil |-> 0]
  /\ gaps = 0
  /\ progress_callback = "none"
  /\ telemetry = Some(TelemetryLogger)
  /\ notified = FALSE
  /\ escaped = None
  /\ other = NoOther
  /\ timing = NoTiming
  /\ turn_timings = 0
  /\ sinks = "reliable"
  /\ events = <<>>
  /\ runs = NoRuns
  /\ prompts = NoPrompts
  /\ \E text \in Responses : extraction = Given(<<>>, text)

NextExtractDuring ==
  \/ Start
  \/ CallSucceeds
  \/ CallFails
  \/ BackoffSleep
  \/ PaddingSleep
  \/ InterTurnGap
  \/ ExtractAgreementCalled
  \/ ExtractFinalAnswerCalled

SpecExtractDuring == InitExtractDuring /\ [][NextExtractDuring]_vars

\* ------------------------------------------- one debate, telemetry enabled
\* debate / debate_sync on an orchestrator whose TelemetryLogger is the
\* shipped one: its calls return, the write of the log file may fail
InitTelemetry ==
  /\ mode \in Modes
  /\ pace \in PaceInputs
  /\ max_rounds \in -1..MaxRoundsFaults
  /\ pc = "start"
  /\ turn = "terrence"
  /\ round_num = 0
  /\ result = DebateResult(NOT_STARTED)
  /\ attempt = 0
  /\ backoff = 0
  /\ response = <<>>
  /\ caught = None
  /\ calls = [Terrence |-> 0, Neil |-> 0]
  /\ gaps = 0
  /\ progress_callback = "none"
  /\ telemetry = Some(TelemetryLogger)
  /\ notified = FALSE
  /\ escaped = None
  /\ other = NoOther
  /\ timing = NoTiming
  /\ turn_timings = 0
  /\ sinks = "reliable"
  /\ events = <<>>
  /\ runs = NoRuns
  /\ extraction = NoExtraction
  /\ prompts = NoPrompts

SpecTelemetry == InitTelemetry /\ [][Next]_vars

\* ------------------------------------------ one debate, prompts followed
\* debate / debate_sync with the message lists it builds for its calls
InitPrompts ==
  /\ mode \in Modes
  /\ pace = "slow"
  /\ max_rounds \in 0..MaxRoundsPrompts
  /\ pc = "start"
  /\ turn = "terrence"
  /\ round_num = 0
  /\ result = DebateResult(NOT_STARTED)
  /\ attempt = 0
  /\ backoff = 0
  /\ response = <<>>
  /\ caught = None
  /\ calls = [Terrence |-> 0, Neil |-> 0]
  /\ gaps = 0
  /\ progress_callback = "none"
  /\ telemetry = None
  /\ notified = FALSE
  /\ escaped = None
  /\ other = NoOther
  /\ timing = NoTiming
  /\ turn_timings = 0
  /\ sinks = "reliable"
  /\ events = <<>>
  /\ runs = NoRuns
  /\ extraction = NoExtraction
  /\ prompts = Prompts(<<>>, <<>>, <<>>, <<>>)

SpecPrompts == InitPrompts /\ [][Next]_vars

\* ------------------------------------- one debate, watched by a callback
\* debate / debate_sync without telemetry, with or without a progress
\* callback (which may raise)
Watched(n) ==
  /\ mode \in Modes
  /\ pace \in PaceInputs
  /\ max_rounds \in -1..n
  /\ pc = "start"
  /\ turn = "terrence"
  /\ round_num = 0
  /\ result = DebateResult(NOT_STARTED)
  /\ attempt = 0
  /\ backoff = 0
  /\ response = <<>>
  /\ caught = None
  /\ calls = [Terrence |-> 0, Neil |-> 0]
  /\ gaps = 0
  /\ progress_callback \in {"none", "attached"}
  /\ telemetry = None
  /\ notified = FALSE
  /\ escaped = None
  /\ other = NoOther
  /\ timing = NoTiming
  /\ turn_timings = 0
  /\ sinks = "reliable"
  /\ events = <<>>
  /\ runs = NoRuns
  /\ extraction = NoExtraction
  /\ prompts = NoPrompts

InitWatched == Watched(MaxRoundsWatched)

SpecWatched == InitWatched /\ [][Next]_vars

\* such runs when every step that can be taken is taken in the end: a
\* model-call attempt returns or fails, a sleep ends, the code after it runs
InitFair == Watched(MaxRoundsFair)

SpecFair == InitFair /\ [][Next]_vars /\ WF_vars(Next)

\* --------------------------------------------------------------- typing
TypeOK ==
  /\ pc \in {"start", "call", "backoff", "pad", "gap", "done", "raised"}
  /\ turn \in {"terrence", "neil", "final"}
  /\ result.status \in {NOT_STARTED, IN_PROGRESS} \cup TerminalStatuses
  /\ attempt \in Nat
  /\ gaps \in Nat

\* ================================================================= claims
Turns == result.turns
NumTurns == Len(result.turns)
TurnsOf(ts, speaker) == {i \in 1..Len(ts) : ts[i].speaker = speaker}
AgreedAt(i) ==
  /\ i \in 1..NumTurns
  /\ Turns[i].speaker = "Neil"
  /\ Turns[i].agreement_flag = Some(TRUE)
AgreedRecorded == \E i \in 1..NumTurns : AgreedAt(i)
NonEmptyFinal(text) ==
  LET final == ExtractFinalAnswer(text)
  IN  final # None /\ final[1] # <<>>

\* C1 (as stated): every COMPLETED debate has a final answer, extracted from
\* a Solver turn that immediately follows a Critic turn whose agreement flag
\* is true.
C1_CompletedOnlyAfterAgreement ==
  result.status = COMPLETED =>
    /\ result.final_answer # None
    /\ NumTurns >= 2
    /\ Turns[NumTurns].speaker = "Terrence"
    /\ result.final_answer = ExtractFinalAnswer(Turns[NumTurns].content)
    /\ AgreedAt(NumTurns - 1)

\* C1 (amended): every COMPLETED debate has a final answer, extracted from
\* the last recorded turn, which is a Solver turn: either the finalization
\* turn immediately following a Critic turn whose agreement flag is true, or
\* an ordinary Solver turn of the current round, before any agreement.
C1_CompletedFromLastSolverTurn ==
  result.status = COMPLETED =>
    /\ result.final_answer # None
    /\ NumTurns >= 1
    /\ Turns[NumTurns].speaker = "Terrence"
    /\ result.final_answer = ExtractFinalAnswer(Turns[NumTurns].content)
    /\ \/ /\ NumTurns = 2 * result.rounds + 1
          /\ AgreedAt(NumTurns - 1)
       \/ /\ NumTurns = 2 * result.rounds - 1
          /\ ~AgreedRecorded

C1_Witness ==
  /\ pc = "done"
  /\ result.status = COMPLETED
  /\ NumTurns >= 5
  /\ AgreedAt(NumTurns - 1)

\* C2: once a Critic turn is recorded with agreement flag true, no further
\* Critic call is issued and no further Critic turn is recorded, whatever the
\* finalization turn returns.
C2_NoCriticAfterAgreement ==
  [][AgreedRecorded =>
       /\ calls'.Neil = calls.Neil
       /\ TurnsOf(result'.turns, "Neil") = TurnsOf(result.turns, "Neil")]_vars

C2_Witness ==
  /\ pc = "done"
  /\ AgreedAt(NumTurns - 1)
  /\ result.status = ERROR
  /\ result.rounds < max_rounds

\* Scenario A over the recorded turns: the ordinary Solver turns (1, 3, 5)
\* carry no tag, the Critic says false, false, true (2, 4, 6), and the
\* finalization turn (7) carries a tagged answer.
NoTags(text) == ExtractAgreement(text) = None /\ ExtractFinalAnswer(text) = None
ScenarioATurn(ts, i, tagged(_)) ==
  CASE i \in {1, 3, 5} -> NoTags(ts[i].content)
    [] i \in {2, 4} -> ExtractAgreement(ts[i].content) = Some(FALSE)
    [] i = 6 -> ExtractAgreement(ts[i].content) = Some(TRUE)
    [] i = 7 -> tagged(ts[i].content)
ScenarioA(ts, tagged(_)) ==
  /\ Len(ts) <= 7
  /\ \A i \in {j \in 1..Len(ts) : j % 2 = 0} : ScenarioATurn(ts, i, tagged)
  /\ \A i \in {j \in 1..Len(ts) : j % 2 = 1} : ScenarioATurn(ts, i, tagged)
HasFinalTag(text) == ExtractFinalAnswer(text) # None

\* C3 (as stated): Scenario A with max_rounds >= 3 and no call failure ends
\* COMPLETED with rounds = 3, turn count = 5 and final_answer the tagged value.
C3_ScenarioAFiveTurns ==
  (pc = "done" /\ max_rounds >= 3 /\ caught = None /\ ScenarioA(Turns, HasFinalTag)) =>
    /\ result.status = COMPLETED
    /\ result.rounds = 3
    /\ NumTurns = 5
    /\ result.final_answer = ExtractFinalAnswer(Turns[NumTurns].content)

\* C3 (amended): Scenario A with max_rounds >= 3, no call failure and a
\* non-empty tagged answer ends COMPLETED with rounds = 3, turn count = 7 and
\* final_answer the tagged value.
C3_ScenarioASevenTurns ==
  (pc = "done" /\ max_rounds >= 3 /\ caught = None /\ ScenarioA(Turns, NonEmptyFinal)) =>
    /\ result.status = COMPLETED
    /\ result.rounds = 3
    /\ NumTurns = 7
    /\ result.final_answer = ExtractFinalAnswer(Turns[7].content)
    /\ NonEmptyFinal(Turns[7].content)

C3_Witness ==
  /\ pc = "done"
  /\ max_rounds >= 3
  /\ caught = None
  /\ NumTurns = 7
  /\ ScenarioA(Turns, NonEmptyFinal)
  /\ result.status = COMPLETED

\* C4: for max_rounds >= 1, with no call failure, no Critic response yielding
\* agreement true and no Solver response carrying a final-answer tag, the
\* debate ends TIMEOUT after exactly max_rounds rounds, without final answer
\* and with the message that max_rounds rounds passed without agreement.
NeverAgreedNorFinal ==
  /\ ~AgreedRecorded
  /\ \A i \in TurnsOf(Turns, "Neil") :
       ExtractAgreement(Turns[i].content) # Some(TRUE)
  /\ NumTurns >= 1 => ExtractFinalAnswer(Turns[NumTurns].content) = None
  /\ \A i \in TurnsOf(Turns, "Terrence") :
       ExtractFinalAnswer(Turns[i].content) = None

TimedOutAfterMaxRounds ==
  /\ result.status = TIMEOUT
  /\ result.rounds = max_rounds
  /\ NumTurns = 2 * max_rounds
  /\ result.final_answer = None
  /\ result.error_message =
       Some(<<"Debate did not reach agreement within ", ToString(max_rounds),
              " rounds">>)

C4_TimeoutAfterMaxRounds ==
  (pc = "done" /\ max_rounds >= 1 /\ caught = None) =>
    (TimedOutAfterMaxRounds \/ ~NeverAgreedNorFinal)

C4_Witness ==
  /\ pc = "done"
  /\ max_rounds >= 2
  /\ caught = None
  /\ NeverAgreedNorFinal
  /\ result.status = TIMEOUT

\* C5: when a Critic turn yields agreement true and the following finalization
\* response has no finalization tag, the debate ends ERROR, without final
\* answer, with the failed-to-finalize message; no further call is issued.
C5_NoFinalAfterAgreementIsError ==
  \A i \in 1..(NumTurns - 1) :
    (AgreedAt(i) /\ ExtractFinalAnswer(Turns[i + 1].content) = None) =>
      /\ pc = "done"
      /\ result.status = ERROR
      /\ result.final_answer = None
      /\ result.error_message =
           Some(<<"Terrence failed to provide final answer after agreement">>)
      /\ NumTurns = i + 1
      /\ calls.Terrence = Cardinality(TurnsOf(Turns, "Terrence"))
      /\ calls.Neil = Cardinality(TurnsOf(Turns, "Neil"))

C5_Witness ==
  /\ pc = "done"
  /\ NumTurns >= 3
  /\ AgreedAt(NumTurns - 1)
  /\ ExtractFinalAnswer(Turns[NumTurns].content) = None
  /\ result.rounds < max_rounds

\* an ordinary Solver turn: the first turn of a round, not a finalization
OrdinarySolverTurn(i) ==
  /\ i \in 1..NumTurns
  /\ i % 2 = 1
  /\ Turns[i].speaker = "Terrence"
  /\ ~AgreedAt(i - 1)

\* the debate ended with the last recorded turn: nothing was issued after it
LastTurnEndsDebate ==
  /\ pc = "done"
  /\ result.status = COMPLETED
  /\ result.final_answer = ExtractFinalAnswer(Turns[NumTurns].content)
  /\ gaps = NumTurns - 1
  /\ calls.Terrence + calls.Neil = NumTurns

\* C6 (as stated): an ordinary Solver turn whose response contains a
\* final-answer signal ends the debate at once, COMPLETED with that answer;
\* the turn is recorded and no gap, Critic turn or Solver turn follows.
\* (Stated of the last recorded turn in every state: a gap or a call issued
\* after such a turn would be a state in which it is still the last turn.)
C6_EarlyFinalCompletes ==
  (OrdinarySolverTurn(NumTurns) /\ ExtractFinalAnswer(Turns[NumTurns].content) # None)
    => LastTurnEndsDebate

\* C6 (amended): an ordinary Solver turn whose response contains a
\* final-answer signal with non-empty trimmed content ends the debate at
\* once, COMPLETED with that answer; the turn is recorded and no gap, Critic
\* turn or Solver turn follows.
C6_EarlyNonEmptyFinalCompletes ==
  (OrdinarySolverTurn(NumTurns) /\ NonEmptyFinal(Turns[NumTurns].content))
    => LastTurnEndsDebate

C6_Witness ==
  /\ pc = "done"
  /\ NumTurns >= 3
  /\ OrdinarySolverTurn(NumTurns)
  /\ NonEmptyFinal(Turns[NumTurns].content)
  /\ result.status = COMPLETED

\* C7: in every reachable state, for every max_rounds >= 0, the rounds
\* counter satisfies 0 <= rounds <= max_rounds.
C7_RoundsWithinBudget ==
  max_rounds >= 0 => (0 <= result.rounds /\ result.rounds <= max_rounds)

C7_Witness ==
  /\ pc = "done"
  /\ max_rounds >= 2
  /\ result.rounds = max_rounds
  /\ result.status = TIMEOUT

\* a step in which a model call fails for good and the failure is caught
FailureSurfaces == caught = None /\ caught' # None
\* the description of the provider failure behind a caught exception
ProviderFailureOf(e) == IF e.cls = "RetryError" THEN e.last.desc ELSE e.desc

\* C8: when a model call fails unrecoverably in any step, the loop aborts at
\* once: no further model call or gap, status ERROR with the failure
\* description as error message, and the Turn list is exactly the turns that
\* completed before the failure.
C8_FailureAbortsWithDescription ==
  [][FailureSurfaces =>
       /\ pc' = "done"
       /\ result'.status = ERROR
       /\ result'.error_message = Some(<<ProviderFailureOf(caught'[1])>>)
       /\ result'.turns = result.turns
       /\ calls' = calls
       /\ gaps' = gaps]_vars

\* C8, the part that does not depend on the wording of the message: the
\* abort, the ERROR status, a message, and the Turn list left as it was
\* (one turn per issued call but the failed one).
C8_FailureAbortsTurnsIntact ==
  [][FailureSurfaces =>
       /\ pc' = "done"
       /\ result'.status = ERROR
       /\ result'.error_message # None
       /\ result'.turns = result.turns
       /\ Len(result'.turns) = calls.Terrence + calls.Neil - 1
       /\ calls' = calls
       /\ gaps' = gaps]_vars

\* what the caller of debate can observe of a run
Observable == <<result, turn, round_num, caught, calls, gaps>>
NewTurnHolds(text) ==
  /\ Len(result'.turns) = Len(result.turns) + 1
  /\ SubSeq(result'.turns, 1, Len(result.turns)) = result.turns
  /\ result'.turns[Len(result'.turns)].content = text

\* C9 (Scenario D): a call that fails on its first two attempts and succeeds
\* on the third leaves no trace: no failure of the first two attempts is
\* caught, the failed attempts and the waits between them change nothing
\* observable, the turn yields the text of the third attempt, and no
\* exception is reported in the result.
C9_TransientFailuresInvisible ==
  [][/\ (pc = "call" /\ mode = "debate" /\ attempt < 3) => caught' = None
     /\ (pc = "call" /\ pc' = "backoff") => UNCHANGED Observable
     /\ pc = "backoff" => (pc' = "call" /\ UNCHANGED Observable)
     /\ (pc = "call" /\ attempt = 3 /\ pc' # "backoff" /\ caught' = None) =>
          /\ response' \in Responses
          /\ \/ pc' = "pad" /\ UNCHANGED Observable
             \/ NewTurnHolds(response')
          /\ result'.status = ERROR =>
               result'.error_message =
                 Some(<<"Terrence failed to provide final answer after agreement">>)
     /\ (pc = "pad" /\ attempt = 3) => NewTurnHolds(response)]_vars

C9_Witness ==
  /\ pc = "pad"
  /\ mode = "debate"
  /\ attempt = 3
  /\ caught = None
  /\ response \in Responses
  /\ result.status = IN_PROGRESS
  /\ result.error_message = None

\* C10: a generate call made through the retry policy is attempted at most 3
\* times: a failed attempt is followed by another attempt exactly when fewer
\* than 3 attempts have been made, and a successful attempt is never followed
\* by another attempt of the same call.
C10_AtMostThreeAttempts ==
  [][mode = "debate" =>
       /\ attempt' <= 3
       /\ (pc = "call" /\ (pc' = "backoff" \/ caught' # None)) =>
            (pc' = "backoff" <=> attempt < 3)
       /\ pc = "backoff" =>
            (pc' = "call" /\ attempt' = attempt + 1 /\ calls' = calls)
       /\ (pc # "backoff" /\ pc' = "call") =>
            (pc # "call" /\ attempt' = 1 /\ calls' # calls)]_vars

C10_Witness ==
  /\ pc = "done"
  /\ mode = "debate"
  /\ attempt = 3
  /\ caught # None

\* C11: when all 3 attempts of a generate call fail, the error delivered to
\* the caller is the last attempt's provider error itself, unchanged and
\* unwrapped, and the result's error message is that error's description.
C11_ExhaustedRetryDeliversProviderError ==
  [][(pc = "call" /\ mode = "debate" /\ attempt = 3 /\ caught' # None) =>
       \E d \in ProviderErrors :
         /\ caught' = Some(ProviderError(d))
         /\ result'.error_message = Some(<<d>>)]_vars

\* C12: the wait before the n-th retry (n = 1, 2) is 2 * 2^(n-1) seconds
\* capped at 10: 2 s after the first failed attempt, 4 s after the second;
\* no wait precedes the first attempt or follows the last one.
C12_BackoffWaits ==
  [][/\ (pc = "call" /\ pc' = "backoff") =>
          /\ attempt \in {1, 2}
          /\ backoff' = (IF attempt = 1 THEN 2 ELSE 4)
          /\ backoff' = Min(2 * 2 ^ (attempt - 1), 10)
     /\ pc' # "backoff" => backoff' = 0
     /\ (pc # "backoff" /\ pc' = "call") => (attempt' = 1 /\ backoff = 0)
     /\ (pc = "call" /\ attempt = 3) => pc' # "backoff"]_vars

C12_Witness ==
  /\ pc = "backoff"
  /\ mode = "debate"
  /\ attempt = 2
  /\ backoff = 4

\* C13: except for an unrecognized pacing mode, no failure is raised out of
\* debate / debate_sync: whatever exception a model call, a progress callback
\* or a telemetry call raises, the call returns a DebateResult with a terminal
\* status and the failure in error_message.  (Cancellation, which is none of
\* these failures, is left aside.)
C13_NoFailureEscapes ==
  /\ escaped # None =>
       \/ escaped[1].cls = "ValueError" /\ pace \notin {"slow", "medium", "fast"}
       \/ escaped[1].cls = "CancelledError"
  /\ (caught # None /\ escaped # Some(CancelledError)) =>
       /\ pc = "done"
       /\ result.status = ERROR
       /\ result.error_message # None

\* C14: an unrecognized pacing mode makes debate / debate_sync fail at the
\* profile lookup: an error is raised to the caller, no DebateResult is
\* produced, and no model call, progress event, inter-turn gap or telemetry
\* record occurs.
C14_UnknownPaceFailsFast ==
  pace \notin {"slow", "medium", "fast"} =>
    /\ pc \in {"start", "raised"}
    /\ pc = "raised" => (escaped # None /\ escaped[1].cls = "ValueError")
    /\ result.status = NOT_STARTED
    /\ result.turns = <<>>
    /\ caught = None
    /\ calls.Terrence = 0
    /\ calls.Neil = 0
    /\ attempt = 0
    /\ gaps = 0
    /\ ~notified
    /\ telemetry # None =>
         /\ telemetry[1].current_debate = None
         /\ telemetry[1].turn_metrics = <<>>
         /\ telemetry[1].log_file = <<>>

C14_Witness ==
  /\ pc = "raised"
  /\ pace = "warp"
  /\ progress_callback = "attached"
  /\ telemetry # None
  /\ escaped # None

\* C16: a cancellation requested while the debate is at a suspension point
\* aborts it promptly: the pending sleep is not completed, no further model
\* call is issued, and the debate's result carries a terminal ERROR/CANCELLED
\* status.
C16_CancellationEndsWithTerminalStatus ==
  [][(escaped = None /\ escaped' = Some(CancelledError)) =>
       /\ calls' = calls
       /\ gaps' = gaps
       /\ result'.turns = result.turns
       /\ result'.status = ERROR]_vars

\* C16, the part about promptness: the step of the cancellation issues no
\* call, begins no sleep and records no turn, and nothing follows it.
C16_CancellationAbortsPromptly ==
  [][/\ (escaped = None /\ escaped' = Some(CancelledError)) =>
          /\ calls' = calls
          /\ gaps' = gaps
          /\ result'.turns = result.turns
          /\ pc' = "raised"
     /\ escaped = Some(CancelledError) => UNCHANGED vars]_vars

\* C18: a failure of the telemetry sink (debate-start, per-turn, error or
\* debate-end logging raising) never aborts the debate: no telemetry
\* exception is what the except clause catches, and none is raised to the
\* caller.
C18_SinkFailureDoesNotAbort ==
  /\ caught # Some(TelemetryError)
  /\ escaped # Some(TelemetryError)

\* C19: progress notifications are fire-and-forget: a callback that raises on
\* an event (thinking, finalizing, transitioning) does not fail the debate,
\* that is, its exception is never what ends the run with ERROR.
C19_CallbackFailureDoesNotFail ==
  ~(caught = Some(CallbackError) /\ result.status = ERROR)

\* C15: for every sequence of per-attempt model outcomes, debate and
\* debate_sync produce the same status, rounds, turns, final answer and error
\* outcome, and the same sequence of attempts, padding sleeps and gaps.
\* Stated step by step: in every state a run reaches, a failed attempt is
\* followed by the same state whether the call is made the way debate makes
\* it or the way debate_sync makes it (no other step reads the mode).
C15_ModesTakeTheSameSteps ==
  [][CallFailsIn(TRUE) <=> CallFailsIn(FALSE)]_vars

\* the audit records written for a debate, told by its expression
RecordsOf(expression) ==
  {i \in 1..Len(telemetry[1].log_file) :
     telemetry[1].log_file[i].expression = expression}

\* C17: when two debates run concurrently on the same orchestrator, nothing
\* is shared: every audit record holds turn metrics of its own debate only,
\* and a debate that has returned has its own audit record, with the metrics
\* of exactly its turns.
C17_ConcurrentDebatesShareNothing ==
  /\ \A i \in 1..Len(telemetry[1].log_file) :
       \A k \in 1..Len(telemetry[1].log_file[i].turns) :
         telemetry[1].log_file[i].turns[k].expression =
           telemetry[1].log_file[i].expression
  /\ pc = "done" =>
       \E i \in RecordsOf(Expression) :
         /\ telemetry[1].log_file[i].total_turns = NumTurns
         /\ telemetry[1].log_file[i].status = result.status
  /\ other.pc = "returned" =>
       \E i \in RecordsOf(OtherExpression) :
         /\ telemetry[1].log_file[i].total_turns = Len(OtherTurns)
         /\ telemetry[1].log_file[i].status = OtherResult.status

\* C17, the part that holds: the Turn history of the first debate is its own
\* (result is a local of the call): every recorded turn came from its calls.
C17_TurnHistoryIsOwn ==
  /\ NumTurns <= calls.Terrence + calls.Neil
  /\ \A i \in 1..NumTurns : Turns[i].content \in Responses

\* C20 (as stated): for every turn execute_turn returns, with m the jittered
\* minimum drawn for it: padding_time = max(0, m - model_latency) and
\* total_time = model_latency + padding_time, so total_time >= m unless the
\* model call alone exceeded m (then padding is 0); in particular
\* total_time >= min_turn_seconds * (1 - jitterPercentage) - 0.1.
C20_TotalIsLatencyPlusPadding ==
  timing.phase = "returned" =>
    LET m == timing.min_turn_seconds + timing.jitter_applied
    IN  /\ timing.padding_time =
             (IF m > timing.model_latency THEN m - timing.model_latency ELSE 0)
        /\ timing.total_time = timing.model_latency + timing.padding_time
        /\ \/ timing.total_time >= m
           \/ timing.model_latency > m /\ timing.padding_time = 0
        /\ 100 * timing.total_time >= timing.min_turn_seconds * (100 - 15) - 100 * 100

\* C20 (amended): padding_time = max(0, m - model_latency) and total_time,
\* which is read from the clock, is at least model_latency + padding_time,
\* so total_time >= m unless the model call alone exceeded m (then padding
\* is 0); in particular
\* total_time >= min_turn_seconds * (1 - jitterPercentage) - 0.1.
C20_TotalAtLeastLatencyPlusPadding ==
  timing.phase = "returned" =>
    LET m == timing.min_turn_seconds + timing.jitter_applied
    IN  /\ timing.padding_time =
             (IF m > timing.model_latency THEN m - timing.model_latency ELSE 0)
        /\ timing.total_time >= timing.model_latency + timing.padding_time
        /\ \/ timing.total_time >= m
           \/ timing.model_latency > m /\ timing.padding_time = 0
        /\ 100 * timing.total_time >= timing.min_turn_seconds * (100 - 15) - 100 * 100

C20_Witness ==
  /\ timing.phase = "returned"
  /\ timing.jitter_applied < 0
  /\ timing.padding_time > 0
  /\ timing.total_time > timing.model_latency + timing.padding_time
  /\ timing.total_time >= timing.min_turn_seconds + timing.jitter_applied

\* C21 (as stated): the same transcript (the same model outputs and
\* latencies) run under the fast and under the slow profile takes, for every
\* jitter draw, strictly less time under fast.
C21_FastStrictlyLessThanSlow ==
  runs.phase = "turn_done" => runs.fast < runs.slow

\* C21 (amended): the time the turns and gaps of the transcript take (model
\* latency, padding and gap as execute_turn and inter_turn_gap ask for them)
\* is under fast never more than under slow, and strictly less when the
\* transcript has a gap (more than one turn) or a model latency below the
\* least jittered slow minimum, min_turn_seconds * (1 - jitterPercentage).
C21_FastAtMostSlow ==
  runs.phase = "turn_done" =>
    /\ runs.fast <= runs.slow
    /\ (runs.gaps > 0 \/ 100 * runs.least_latency < 2000 * (100 - 15))
         => runs.fast < runs.slow

\* two turns, neither padded under either profile: the gap alone makes fast
\* the shorter run
C21_Witness ==
  /\ runs.phase = "turn_done"
  /\ runs.turns = 2
  /\ runs.least_latency >= 2300
  /\ runs.fast < runs.slow
  /\ runs.slow - runs.fast <= 1150 - 255

\* C22: on every exit path of a debate (COMPLETED, TIMEOUT, ERROR) the
\* returned result has its total elapsed time stored and carries the pace
\* controller's timing summary, computed over exactly the turns of the
\* result's turn list: the controller holds one TurnTiming per recorded turn
\* and none for a turn whose call failed, so the summary counts as many
\* turns as the list has (and is the empty summary when the list is empty).
C22_TimingSummaryOnEveryExit ==
  (pc = "done" /\ result.status \in TerminalStatuses) =>
    /\ result.total_time = "elapsed"
    /\ turn_timings = Len(result.turns)
    /\ IF result.turns = <<>>
       THEN result.timing_summary = EmptyDict
       ELSE /\ result.timing_summary # EmptyDict
            /\ result.timing_summary.total_turns = Len(result.turns)

\* an ERROR exit after one recorded turn: the second turn's call failed and
\* left no TurnTiming
C22_Witness ==
  /\ pc = "done"
  /\ result.status = ERROR
  /\ caught # None /\ caught[1].cls \in {"RetryError", "ProviderError"}
  /\ calls.Terrence + calls.Neil = 2
  /\ Len(result.turns) = 1
  /\ result.timing_summary # EmptyDict
  /\ result.timing_summary.total_turns = 1
  /\ result.total_time = "elapsed"

\* C23: within one debate turns run one at a time and alternate strictly: a
\* turn's model call is issued only after the previous turn has been recorded
\* (the calls issued are the recorded turns plus, while a turn is in flight,
\* that one), the first turn is the Solver's, and the speaker of every turn,
\* in flight or recorded, the finalization turn included, differs from the
\* speaker of the turn recorded before it.
C23_TurnsAlternate ==
  LET n == Len(result.turns)
      issued == calls.Terrence + calls.Neil
      in_flight == pc \in {"call", "backoff", "pad"}
  IN  /\ issued >= n /\ issued <= n + 1
      /\ in_flight => issued = n + 1
      /\ pc = "gap" => issued = n
      /\ n >= 1 => result.turns[1].speaker = "Terrence"
      /\ n >= 2 => result.turns[n].speaker # result.turns[n - 1].speaker
      /\ in_flight =>
           IF n = 0 THEN Speaker(turn) = "Terrence"
           ELSE Speaker(turn) # result.turns[n].speaker

\* a finalization turn recorded after a second round: Solver, Critic, Solver,
\* Critic, Solver
C23_Witness ==
  /\ pc = "done"
  /\ result.status = COMPLETED
  /\ Len(result.turns) = 5
  /\ result.turns[4].agreement_flag = Some(TRUE)
  /\ result.turns[5].speaker = "Terrence"
  /\ calls = [Terrence |-> 3, Neil |-> 2]

PiecesOf(ps, kind) == {i \in 1..Len(ps) : ps[i].kind = kind}
Least(S) == CHOOSE i \in S : \A j \in S : i <= j

\* C25: extractAgreement returns the boolean of the first well-formed
\* agreement tag of the text, whatever the case of the tag name and of the
\* literal and wherever in the text the tag stands, and absent when the text
\* has no well-formed agreement tag; a later tag never overrides the first.
C25_FirstAgreementTagDecides ==
  (extraction.phase = "given" /\ extraction.outputs.agreement # <<>>) =>
    LET tags == PiecesOf(extraction.pieces, "agree")
    IN  extraction.outputs.agreement[1] =
          (IF tags = {} THEN None ELSE Some(extraction.pieces[Least(tags)].value))

\* a false tag in mixed case after other text, followed by a true tag
C25_Witness ==
  /\ extraction.phase = "given"
  /\ extraction.pieces = <<AgreeSpacedTag, AgreeFalseMixedTag, AgreeTrueTag>>
  /\ extraction.outputs.agreement = <<Some(FALSE)>>

\* out is content without its leading and trailing whitespace
IsTrimOf(out, content) ==
  /\ out # <<>> => ~IsSpace(out[1]) /\ ~IsSpace(out[Len(out)])
  /\ \E k \in 0..(Len(content) - Len(out)) :
       /\ SubSeq(content, k + 1, k + Len(out)) = out
       /\ \A i \in 1..Len(content) :
            (i <= k \/ i > k + Len(out)) => IsSpace(content[i])

\* C26: extractFinal returns the inner content of the first finalization tag
\* pair: from the first opening tag up to the first closing tag after it
\* (tags in any case, line breaks inside included), without its leading and
\* trailing whitespace; and absent when the text has no complete pair.
C26_FirstFinalPairTrimmed ==
  (extraction.phase = "given" /\ extraction.outputs.final_answer # <<>>) =>
    LET ps == extraction.pieces
        out == extraction.outputs.final_answer[1]
        opens == PiecesOf(ps, "final_open")
        closes == IF opens = {} THEN {}
                  ELSE {j \in PiecesOf(ps, "final_close") : j > Least(opens)}
    IN  IF closes = {} THEN out = None
        ELSE /\ out # None
             /\ IsTrimOf(out[1], Concat(SubSeq(ps, Least(opens) + 1, Least(closes) - 1)))

\* a padded word between a lower-case opening tag and a mixed-case closing
\* tag: the word alone is returned
C26_Witness ==
  /\ extraction.phase = "given"
  /\ extraction.pieces = <<FinalOpenLowerTag, PaddedWordPiece, FinalCloseMixedTag>>
  /\ extraction.outputs.final_answer = <<Some(<<"5">>)>>

RecordMatchesResult(record) ==
  /\ record.status = result.status
  /\ record.final_answer = result.final_answer
  /\ record.rounds_completed = result.rounds
  /\ record.total_turns = Len(result.turns)

C29_GapWithinJitterRange ==
  timing.phase \in {"gap_sleeping", "gap_returned"} =>
    /\ events = (IF progress_callback = "attached" THEN <<"transitioning">> ELSE <<>>)
                  \o <<"sleep">>
    /\ timing.inter_turn_gap_seconds * (100 - timing.jitter_percentage)
         <= 100 * timing.gap_time
    /\ 100 * timing.gap_time
         <= timing.inter_turn_gap_seconds * (100 + timing.jitter_percentage)

\* C29 (amended): for every pacing profile and jitter percentage j,
\* inter_turn_gap emits the transitioning event (to an attached callback)
\* and then suspends for a duration g with
\* max(0.1, inter_turn_gap_seconds * (1 - j)) <= g
\*   <= max(0.1, inter_turn_gap_seconds * (1 + j)):
\* the jittered gap is raised to the floor of 0.1 s.
C29_GapWithinClampedJitterRange ==
  timing.phase \in {"gap_sleeping", "gap_returned"} =>
    /\ events = (IF progress_callback = "attached" THEN <<"transitioning">> ELSE <<>>)
                  \o <<"sleep">>
    /\ Max(100 * 100, timing.inter_turn_gap_seconds * (100 - timing.jitter_percentage))
         <= 100 * timing.gap_time
    /\ 100 * timing.gap_time
         <= Max(100 * 100, timing.inter_turn_gap_seconds * (100 + timing.jitter_percentage))

\* a gap of 0.05 s at 15 % jitter: the sleep is the floor, 0.1 s, above
\* 0.05 * 1.15; the callback has been told before
C29_Witness ==
  /\ timing.phase = "gap_sleeping"
  /\ timing.inter_turn_gap_seconds = 50
  /\ timing.jitter_percentage = 15
  /\ timing.gap_time = 100
  /\ events = <<"transitioning", "sleep">>

\* C30: for every turn the thinking event is emitted before the model call
\* is invoked; the finalizing event is emitted only when the model latency is
\* below the jittered minimum, after the call returns and before the padding
\* sleep; a turn whose latency reaches the jittered minimum emits no
\* finalizing event and sleeps no padding.  (Events go to the callback when
\* one is attached.)
C30_EventsInOrder ==
  timing.phase \in {"calling", "sleeping", "returned", "raised"} =>
    LET attached == progress_callback = "attached"
        returned == timing.phase \in {"sleeping", "returned"}
        m == timing.min_turn_seconds + timing.jitter_applied
        padded == returned /\ timing.model_latency < m
    IN  /\ events = (IF attached THEN <<"thinking">> ELSE <<>>)
                      \o <<"model_call">>
                      \o (IF padded /\ attached THEN <<"finalizing">> ELSE <<>>)
                      \o (IF padded THEN <<"sleep">> ELSE <<>>)
        /\ returned => (timing.padding_time > 0 <=> padded)

\* a turn whose model call took exactly the jittered minimum: returned with
\* no finalizing event and no sleep
C30_Witness ==
  /\ timing.phase = "returned"
  /\ progress_callback = "attached"
  /\ timing.model_latency = timing.min_turn_seconds + timing.jitter_applied
  /\ timing.padding_time = 0
  /\ events = <<"thinking", "model_call">>

\* sub occurs in content
Contains(content, sub) ==
  Search(content, 1, [i \in 1..Len(sub) |-> {sub[i]}]) # 0
HoldsExpression(messages) ==
  \E i \in 1..Len(messages) : Contains(messages[i].content, ExpressionText)
\* the recorded turns, each in a message of its speaker's role, one after
\* the other
HoldsHistory(messages) ==
  \E k \in 0..(Len(messages) - NumTurns) :
    \A i \in 1..NumTurns :
      /\ messages[k + i].role =
           (IF Turns[i].speaker = "Terrence" THEN "assistant" ELSE "user")
      /\ Contains(messages[k + i].content, Turns[i].content)
\* an ordinary Solver turn is being executed with the list built for it
SolverTurnInFlight ==
  /\ prompts # NoPrompts
  /\ pc \in {"call", "backoff", "pad"}
  /\ turn = "terrence"

\* C31: for every ordinary Solver turn of a debate, in round 1 and in every
\* later round, the message list built for the Solver starts with the system
\* instructions, contains the full prior history of Solver and Critic turns
\* in order, contains the expression under debate, and ends with a user-role
\* message.
C31_SolverMessagesHoldExpression ==
  SolverTurnInFlight =>
    LET messages == prompts.terrence_messages
    IN  /\ messages # <<>>
        /\ messages[1] = Message("system", TERRENCE_SYSTEM_PROMPT)
        /\ HoldsHistory(messages)
        /\ HoldsExpression(messages)
        /\ messages[Len(messages)].role = "user"

\* C31, the part that holds: the list starts with the system instructions,
\* contains the prior history in order and ends with a user-role message; in
\* round 1 that message asks for the expression.
C31_SolverMessagesHoldHistory ==
  SolverTurnInFlight =>
    LET messages == prompts.terrence_messages
    IN  /\ messages # <<>>
        /\ messages[1] = Message("system", TERRENCE_SYSTEM_PROMPT)
        /\ HoldsHistory(messages)
        /\ messages[Len(messages)].role = "user"
        /\ NumTurns = 0 =>
             messages[Len(messages)].content = <<"Calculate: ">> \o ExpressionText

\* C32: execute_turn respects the minimum turn duration even when the model
\* call fails: the failure is re-raised to the caller only after the turn has
\* lasted at least the jittered minimum (at least the least minimum a draw
\* can give, min_turn_seconds * (1 - jitterPercentage), floored at 0.1 s).
C32_FailureWaitsForMinimum ==
  timing.phase = "raised" =>
    100 * timing.model_latency
      >= Max(100 * JitterFloor, timing.min_turn_seconds * (100 - JitterPercentage))

\* C32, what the code does: a failing call is re-raised when it fails, after
\* the model latency alone: no finalizing event, no sleep, no padding.
C32_FailureRaisedAtOnce ==
  timing.phase = "raised" =>
    /\ events = (IF progress_callback = "attached" THEN <<"thinking">> ELSE <<>>)
                  \o <<"model_call">>
    /\ timing.padding_time = 0
    /\ timing.total_time = 0
    /\ timing.jitter_applied = 0

\* C33: at every return of debate / debate_sync, final_answer is present if
\* and only if status is COMPLETED, and error_message is present if and only
\* if status is TIMEOUT or ERROR.
C33_AnswerAndMessageFollowStatus ==
  pc = "done" =>
    /\ result.final_answer # None <=> result.status = COMPLETED
    /\ result.error_message # None <=> result.status \in {TIMEOUT, ERROR}

\* a return with ERROR after a recorded turn: a message and no answer
C33_Witness ==
  /\ pc = "done"
  /\ result.status = ERROR
  /\ caught # None
  /\ Len(result.turns) = 1
  /\ result.final_answer = None
  /\ result.error_message # None

FirstAgreementInRound(k) ==
  /\ 2 * k <= NumTurns
  /\ AgreedAt(2 * k)
  /\ \A j \in 1..(k - 1) : ~AgreedAt(2 * j)
  /\ \A j \in 1..k : ExtractFinalAnswer(Turns[2 * j - 1].content) = None

\* C35: if the first Critic agreement-true occurs in round k <= max_rounds,
\* with no call failure and no final-answer tag in an ordinary Solver turn,
\* the debate stops in round k with rounds = k and exactly 2k + 1 recorded
\* turns, the last being the Solver's finalization turn.
C35_AgreementInRoundKStopsThere ==
  (pc = "done" /\ caught = None) =>
    \A k \in 1..max_rounds :
      FirstAgreementInRound(k) =>
        /\ result.rounds = k
        /\ NumTurns = 2 * k + 1
        /\ Turns[2 * k + 1].speaker = "Terrence"
        /\ calls = [Terrence |-> k + 1, Neil |-> k]

\* agreement in the second round after a disagreement in the first
C35_Witness ==
  /\ pc = "done"
  /\ caught = None
  /\ max_rounds = 2
  /\ FirstAgreementInRound(2)
  /\ Turns[2].agreement_flag = Some(FALSE)
  /\ result.rounds = 2
  /\ NumTurns = 5

\* C36: on every COMPLETED or TIMEOUT exit, exactly one inter-turn gap
\* occurred between each pair of consecutive turns and none before the first
\* or after the last turn (gaps = turns - 1 when at least one turn ran); in
\* particular no gap follows the Critic turn of the last round or the
\* finalization turn.  (While a turn is executed, and while a gap is slept,
\* as many gaps have begun as turns are recorded: none before the first
\* turn, one before every later one.)
C36_OneGapBetweenTurns ==
  /\ pc \in {"call", "backoff", "pad"} => gaps = Len(result.turns)
  /\ pc = "gap" => (gaps = Len(result.turns) /\ gaps >= 1)
  /\ (pc = "done" /\ result.status \in {COMPLETED, TIMEOUT}) =>
       gaps = (IF result.turns = <<>> THEN 0 ELSE Len(result.turns) - 1)

\* a TIMEOUT exit after two rounds: four turns, three gaps
C36_Witness ==
  /\ pc = "done"
  /\ result.status = TIMEOUT
  /\ max_rounds = 2
  /\ Len(result.turns) = 4
  /\ result.turns[4].speaker = "Neil"
  /\ gaps = 3

\* the last recorded turn is a Critic turn whose response yields flag
LastCriticTurnYields(flag) ==
  /\ NumTurns >= 1
  /\ Turns[NumTurns].speaker = "Neil"
  /\ ExtractAgreement(Turns[NumTurns].content) = flag

\* after the last recorded turn, a Critic turn, the debate goes on as after
\* a disagreement: no finalization is requested; a gap leads to the next
\* round when there is one, else the debate has returned TIMEOUT (or, a
\* later step having failed, ERROR with that failure caught)
GoesOnAsAfterDisagreement ==
  /\ turn # "final"
  /\ caught = None =>
       calls.Terrence = Cardinality(TurnsOf(Turns, "Terrence"))
                          + (IF pc \in {"call", "backoff", "pad"} THEN 1 ELSE 0)
  /\ pc = "gap" => (turn = "terrence" /\ result.rounds < max_rounds)
  /\ pc \in {"call", "backoff", "pad"} => turn = "terrence"
  /\ (pc = "done" /\ caught = None) =>
       /\ result.status = TIMEOUT
       /\ result.rounds = max_rounds
       /\ result.final_answer = None

\* C37: a Critic response with no well-formed agreement tag is recorded
\* with an absent agreement flag and handled exactly like agreement-false: no
\* finalization request is issued, and the debate proceeds to the next round
\* or, in the last round, to TIMEOUT.
C37_AbsentFlagIsDisagreement ==
  /\ LastCriticTurnYields(None) =>
       (Turns[NumTurns].agreement_flag = None /\ GoesOnAsAfterDisagreement)
  /\ LastCriticTurnYields(Some(FALSE)) =>
       (Turns[NumTurns].agreement_flag = Some(FALSE) /\ GoesOnAsAfterDisagreement)

\* a first round whose Critic gave no tag, then a second round without
\* agreement: TIMEOUT after four turns
C37_Witness ==
  /\ pc = "done"
  /\ caught = None
  /\ max_rounds = 2
  /\ NumTurns = 4
  /\ Turns[2].agreement_flag = None
  /\ ExtractAgreement(Turns[2].content) = None
  /\ LastCriticTurnYields(None)
  /\ result.status = TIMEOUT

\* the last recorded turn is a Solver turn whose finalization tag holds
\* nothing but whitespace
LastSolverTurnHasEmptyFinal ==
  /\ NumTurns >= 1
  /\ Turns[NumTurns].speaker = "Terrence"
  /\ ExtractFinalAnswer(Turns[NumTurns].content) = Some(<<>>)

\* C38: a finalization tag whose trimmed content is empty is treated as no
\* final answer: in an ordinary Solver turn it does not complete the debate
\* (the Critic's turn follows), and in the finalization turn after agreement
\* it yields status ERROR; hence every COMPLETED result carries a non-empty
\* final answer.
C38_EmptyFinalIsNoAnswer ==
  /\ (LastSolverTurnHasEmptyFinal /\ OrdinarySolverTurn(NumTurns)) =>
       /\ result.status # COMPLETED
       /\ result.final_answer = None
       /\ caught = None =>
            /\ pc \in {"gap", "call", "backoff", "pad"}
            /\ turn = "neil"
            /\ result.status = IN_PROGRESS
  /\ (LastSolverTurnHasEmptyFinal /\ AgreedAt(NumTurns - 1)) =>
       /\ pc = "done"
       /\ result.status = ERROR
       /\ result.final_answer = None
       /\ result.error_message =
            Some(<<"Terrence failed to provide final answer after agreement">>)
  /\ result.status = COMPLETED =>
       (result.final_answer # None /\ result.final_answer[1] # <<>>)

\* an empty tag pair in the ordinary turn of round 1, agreement, and an empty
\* tag pair again in the finalization turn: ERROR after three turns
C38_Witness ==
  /\ pc = "done"
  /\ NumTurns = 3
  /\ ExtractFinalAnswer(Turns[1].content) = Some(<<>>)
  /\ AgreedAt(2)
  /\ LastSolverTurnHasEmptyFinal
  /\ result.status = ERROR

\* C39: with max_rounds <= 0 the debate issues no model call, progress event
\* or inter-turn gap and returns status TIMEOUT with rounds = 0, an empty
\* Turn list, no final answer and an empty timing summary.  (For a
\* recognized pacing mode: the debate is in its first step or has returned.)
C39_NoRoundsIsTimeout ==
  (max_rounds <= 0 /\ pace \in {"slow", "medium", "fast"}) =>
    /\ pc \in {"start", "done"}
    /\ calls = [Terrence |-> 0, Neil |-> 0]
    /\ attempt = 0
    /\ gaps = 0
    /\ ~notified
    /\ turn_timings = 0
    /\ pc = "done" =>
         /\ result.status = TIMEOUT
         /\ result.rounds = 0
         /\ result.turns = <<>>
         /\ result.final_answer = None
         /\ result.timing_summary = EmptyDict
         /\ caught = None /\ escaped = None

\* a debate of -1 rounds with a callback attached has returned
C39_Witness ==
  /\ pc = "done"
  /\ max_rounds = -1
  /\ pace = "slow"
  /\ progress_callback = "attached"
  /\ result.status = TIMEOUT
  /\ result.timing_summary = EmptyDict

\* the exception caught is the failure of a model call
CallFailureCaught ==
  caught # None /\ caught[1].cls \in {"ProviderError", "RetryError"}

\* C40: at every return, rounds equals the number of rounds whose Solver
\* call was started, not the number of rounds finished:
\* floor(turns / 2) <= rounds <= floor(turns / 2) + 1, and an unrecovered
\* failure in the Solver turn of round r leaves rounds = r with exactly
\* 2 * (r - 1) recorded turns.  (The Solver calls issued are one per round
\* started and, after an agreement, the finalization call.)
C40_RoundsCountsRoundsStarted ==
  pc = "done" =>
    /\ NumTurns \div 2 <= result.rounds
    /\ result.rounds <= NumTurns \div 2 + 1
    /\ (caught = None \/ CallFailureCaught) =>
         calls.Terrence = result.rounds + (IF turn = "final" THEN 1 ELSE 0)
    /\ (CallFailureCaught /\ turn = "terrence") =>
         /\ result.rounds = round_num + 1
         /\ NumTurns = 2 * (result.rounds - 1)
         /\ result.status = ERROR

\* the Solver's call of round 2 failed for good: rounds = 2, two turns
C40_Witness ==
  /\ pc = "done"
  /\ CallFailureCaught
  /\ turn = "terrence"
  /\ result.rounds = 2
  /\ NumTurns = 2
  /\ result.status = ERROR

====
